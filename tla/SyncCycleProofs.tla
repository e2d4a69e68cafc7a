--------------------------- MODULE SyncCycleProofs ---------------------------
(***************************************************************************)
(* Proofs about SyncCycle, for any paths, bounds and flags: its type       *)
(* invariant and, as long as the user keeps still while a cycle runs, that *)
(* no archive row ever lies about what was synced, and that nothing the    *)
(* user wrote is destroyed, with other clients writing, requests failing   *)
(* and the process crashing at any moment.                                 *)
(***************************************************************************)
EXTENDS SyncCycle, TLAPS, WellFoundedInduction

-----------------------------------------------------------------------------
(* The greatest of some log positions is one of them.                      *)
LEMMA LatestMember ==
  ASSUME NEW n \in Nat, NEW S \in SUBSET (1..n), S # {}
  PROVE  Latest(S) \in S /\ \A j \in S : j <= Latest(S)
<1> DEFINE fromEnd == {n - i : i \in S}
           less == {ss \in Nat \X Nat : ss[1] < ss[2]}
<1>1. IsWellFoundedOn(less, Nat)
  BY NatLessThanWellFounded DEF OpToRel
<1>0. \A i \in S : i \in 1..n /\ i \in Nat /\ n - i \in Nat
  <2> SUFFICES ASSUME NEW i \in S PROVE i \in Nat /\ n - i \in Nat /\ i \in 1..n
    OBVIOUS
  <2>1. i \in 1..n
    OBVIOUS
  <2> QED
    BY <2>1
<1>2. fromEnd \subseteq Nat /\ fromEnd # {}
  <2>1. PICK i \in S : TRUE
    OBVIOUS
  <2> QED
    BY <1>0, <2>1
<1>3. PICK x \in fromEnd : \A y \in fromEnd : ~(<<y, x>> \in less)
  <2> HIDE DEF fromEnd, less
  <2> QED
    BY <1>1, <1>2, WFMin
<1>4. PICK i \in S : x = n - i
  BY <1>3
<1>5. ASSUME NEW j \in S PROVE j <= i
  <2>1. n - j \in fromEnd
    OBVIOUS
  <2>2. ~(<<n - j, n - i>> \in less)
    BY <1>3, <1>4, <2>1
  <2>3. n - j \in Nat /\ n - i \in Nat /\ i \in Nat /\ j \in Nat
    BY <1>0
  <2>4. ~(n - j < n - i)
    BY <2>2, <2>3
  <2> QED
    BY <2>3, <2>4
<1> QED
  BY <1>5 DEF Latest

(* Latest of some log positions: NoVersion or one of them.                 *)
LEMMA LatestOfLog ==
  ASSUME ServerOK, NEW S \in SUBSET (DOMAIN log)
  PROVE  /\ Latest(S) \in Nat
         /\ Latest(S) # NoVersion => Latest(S) \in S
<1>1. DOMAIN log = 1..Len(log) /\ Len(log) \in Nat
  BY DEF ServerOK
<1>2. CASE S = {}
  BY <1>2 DEF Latest, NoVersion
<1>3. CASE S # {}
  <2>1. Latest(S) \in S
    BY <1>1, <1>3, LatestMember
  <2> QED
    BY <1>1, <2>1
<1> QED
  BY <1>2, <1>3

(* cv is a version of file p, and that version's content is c.             *)
Holds(p, cv, c) == cv \in Entries(p) /\ ContentOf(cv) = c

(* The content of an entry, and its position, are naturals.                *)
LEMMA EntryContent ==
  ASSUME ServerOK, NEW p, NEW i \in Entries(p)
  PROVE  i \in Nat /\ i # NoVersion /\ ContentOf(i) \in Nat
<1>1. i \in 1..Len(log) /\ Len(log) \in Nat
  BY DEF ServerOK, Entries
<1>2. log[i] \in LogEntry
  BY <1>1 DEF ServerOK
<1> QED
  BY <1>1, <1>2 DEF ContentOf, LogEntry, NoVersion

(* The current version of a path is one of its entries, unless the server  *)
(* does not have the path.                                                 *)
LEMMA TipHolds ==
  ASSUME ServerOK, NEW p
  PROVE  /\ Tip(p) \in Nat /\ TipContent(p) \in Nat
         /\ TipContent(p) # Absent => Holds(p, Tip(p), TipContent(p))
<1>1. Tip(p) \in Nat /\ (Tip(p) # NoVersion => Tip(p) \in Entries(p))
  BY LatestOfLog DEF Tip, Entries
<1>2. CASE Tip(p) = NoVersion
  BY <1>2 DEF TipContent, ContentOf, Absent, NoVersion
<1>3. CASE Tip(p) # NoVersion
  BY <1>1, <1>3, EntryContent DEF TipContent, Holds
<1> QED
  BY <1>1, <1>2, <1>3

(* The event a poll reports for a path is one of its entries.              *)
LEMMA EventInLog ==
  ASSUME ServerOK, NEW p
  PROVE  Event(p) \in Nat /\ (Event(p) # NoVersion => Event(p) \in Entries(p))
<1> DEFINE news == {i \in Entries(p) : i > cursor /\ i \notin pushed}
<1>1. news \in SUBSET (DOMAIN log)
  BY DEF Entries
<1>2. Latest(news) \in Nat /\ (Latest(news) # NoVersion => Latest(news) \in news)
  <2> HIDE DEF news
  <2> QED
    BY <1>1, LatestOfLog
<1> QED
  BY <1>2 DEF Event

(* The three-way merge always decides on one of the actions.               *)
LEMMA ActionsTyped ==
  ASSUME NEW d, NEW r, NEW e, NEW b \in BOOLEAN
  PROVE  IncrementalAction(d, r, e) \in Actions /\ FullAction(d, r, b) \in Actions
BY DEF IncrementalAction, FullAction, Actions, LocalSame, LocalDeleted,
       LocalChanged, LocalNew

(* The log only grows: what an entry says, it goes on saying.              *)
LogKept == \A i \in DOMAIN log : i \in DOMAIN log' /\ log'[i] = log[i]

(* What an upload or a remote write does to the log.                       *)
LEMMA LogGrows ==
  ASSUME ServerOK, NEW p \in Paths, NEW c \in Nat, NEW own \in BOOLEAN,
         log' = Append(log, Entry(p, c, own)), UNCHANGED pruned
  PROVE  /\ ServerOK' /\ LogKept
         /\ Len(log') = Len(log) + 1 /\ Len(log') \in Nat
         /\ Len(log') \in DOMAIN log' /\ log'[Len(log')] = Entry(p, c, own)
<1>1. Entry(p, c, own) \in LogEntry
  BY DEF Entry, LogEntry
<1> HIDE DEF Entry
<1>2. log' \in Seq(LogEntry) /\ Len(log') = Len(log) + 1 /\ Len(log) \in Nat
  BY <1>1 DEF ServerOK
<1>3. DOMAIN log = 1..Len(log) /\ DOMAIN log' = 1..(Len(log) + 1)
  BY <1>2 DEF ServerOK
<1>4. ASSUME NEW i \in DOMAIN log
      PROVE i \in DOMAIN log' /\ log'[i] = log[i]
  BY <1>1, <1>2, <1>3 DEF ServerOK
<1>5. log'[Len(log) + 1] = Entry(p, c, own)
  BY <1>1, <1>2 DEF ServerOK
<1> QED
  BY <1>2, <1>3, <1>4, <1>5 DEF ServerOK, LogKept

(* A plan that names a revision names one of its own path.                 *)
PlansInLog == \A p \in Paths :
                plan[p].rev # NoVersion => plan[p].rev \in Entries(p)
TypeInv == TypeOK /\ PlansInLog

(* A download that finds a content finds that of the version it reports.   *)
LEMMA FetchedTyped ==
  ASSUME ServerOK, PlanOK, PlansInLog, NEW p \in Paths
  PROVE  LET f == Fetched(p, plan[p].rev)
         IN  /\ f.got \in Nat /\ f.cv \in Nat /\ f.rev \in Nat
             /\ f.got # Absent => Holds(p, f.cv, f.got)
<1> DEFINE rev == plan[p].rev
<1>1. CASE rev # NoVersion /\ rev \notin pruned
  <2>1. rev \in Entries(p)
    BY <1>1 DEF PlansInLog
  <2> QED
    BY <1>1, <2>1, EntryContent DEF Fetched, Holds
<1>2. CASE ~(rev # NoVersion /\ rev \notin pruned)
  BY <1>2, TipHolds DEF Fetched, NoVersion
<1> QED
  BY <1>1, <1>2

-----------------------------------------------------------------------------
(* What the ends of handlers and of cycles do to the type of the plan.     *)

(* Removing plans and appending to the log keep plans in the log.          *)
LEMMA PlansStay ==
  ASSUME TypeInv, LogKept, PlanOK',
         \A p \in Paths : plan'[p] \in {plan[p], NoPlan}
  PROVE  PlansInLog'
BY DEF TypeInv, TypeOK, PlansInLog, LogKept, Entries, NoPlan, NoVersion

(* An untouched log is kept.                                               *)
LEMMA LogUnchanged ==
  ASSUME ServerOK, UNCHANGED log
  PROVE  LogKept
BY DEF LogKept

(* A handler that ends, well or not, keeps the cycle typed.                *)
LEMMA HandlerEnds ==
  ASSUME TypeInv, LogKept, NEW p, Done(p) \/ Fail(p), UnchangedCycle
  PROVE  StepOK' /\ PlanOK' /\ CycleOK' /\ PlansInLog'
<1>1. plan' = [plan EXCEPT ![p] = NoPlan] /\ step' = NoStep
  BY DEF Done, Fail
<1>2. PlanOK' /\ \A q \in Paths : plan'[q] \in {plan[q], NoPlan}
  BY <1>1 DEF TypeInv, TypeOK, PlanOK, NoPlan, NoVersion, Version, Actions
<1>3. StepOK'
  BY <1>1 DEF StepOK, NoStep, Steps, Absent, NoVersion, Version, Downloading
<1>4. CycleOK'
  BY DEF TypeInv, TypeOK, CycleOK, Done, Fail, UnchangedCycle
<1> QED
  BY <1>2, <1>3, <1>4, PlansStay

(* So does one that goes on to a typed step.                               *)
LEMMA HandlerContinues ==
  ASSUME TypeInv, LogKept, NEW s, Continue(s), UnchangedCycle,
         s \in Steps, s.at # "none" => s.path \in Paths,
         s.at \in Downloading => s.got # Absent
  PROVE  StepOK' /\ PlanOK' /\ CycleOK' /\ PlansInLog'
<1>1. UNCHANGED plan /\ step' = s
  BY DEF Continue
<1>2. PlanOK' /\ CycleOK'
  BY <1>1 DEF TypeInv, TypeOK, PlanOK, CycleOK, Continue, UnchangedCycle
<1>3. StepOK'
  BY <1>1 DEF StepOK
<1> QED
  BY <1>1, <1>2, <1>3, PlansStay

(* So does the end of a cycle.                                             *)
LEMMA CycleEnds ==
  ASSUME TypeInv, NEW where \in {"starting", "idle"}, Leave(where), scan' = scan
  PROVE  StepOK' /\ PlanOK' /\ CycleOK' /\ PlansInLog'
<1>1. StepOK' /\ PlanOK'
  BY DEF Leave, StepOK, PlanOK, NoStep, NoPlans, NoPlan, Steps, Actions,
         Absent, NoVersion, Version, Downloading
<1>2. CycleOK'
  BY DEF TypeInv, TypeOK, CycleOK, Leave, Version
<1>3. PlansInLog'
  BY DEF PlansInLog, Leave, NoPlans, NoPlan
<1> QED
  BY <1>1, <1>2, <1>3

-----------------------------------------------------------------------------
(* The type invariant. *)

(* The type invariant holds at the start.                                  *)
LEMMA InitTyped == Init => TypeInv
<1> SUFFICES ASSUME Init PROVE TypeInv
  OBVIOUS
<1>1. DiskOK /\ StateOK
  BY DEF Init, DiskOK, StateOK, NoRow, Rows, Version, NoVersion, NoCursor, Absent
<1>2. ServerOK
  BY DEF Init, ServerOK
<1>3. StepOK /\ PlanOK /\ CycleOK /\ BookkeepingOK
  BY DEF Init, StepOK, PlanOK, CycleOK, BookkeepingOK, NoStep, NoPlans, NoPlan,
         Steps, Actions, Counters, Absent, NoVersion, Version, Downloading
<1>4. PlansInLog
  BY DEF Init, PlansInLog, NoPlans, NoPlan
<1> QED
  BY <1>1, <1>2, <1>3, <1>4 DEF TypeInv, TypeOK

(* Counting an event keeps the bookkeeping typed.                          *)
LEMMA SpentTyped ==
  ASSUME BookkeepingOK, UNCHANGED wanted,
         UNCHANGED used \/
           \E what \in {"user", "remote", "crashes", "faults", "gone"} : Spent(what)
  PROVE  BookkeepingOK'
BY DEF BookkeepingOK, Spent, Counters

(* The user, the other clients and the server keep the type invariant.     *)
LEMMA EnvironmentTyped ==
  ASSUME TypeInv, Environment
  PROVE  TypeInv'
<1> USE DEF TypeInv, TypeOK
<1>1. FreshContent \in Nat
  BY DEF BookkeepingOK, Counters, FreshContent
<1>2. ASSUME NEW p \in Paths, UserWrite(p) \/ UserDelete(p)
      PROVE TypeInv'
  <2>1. PICK c \in Nat : /\ local' = [local EXCEPT ![p] = c]
                         /\ wanted' = [wanted EXCEPT ![p] = c]
    BY <1>1, <1>2 DEF UserWrite, UserDelete, Absent
  <2>2. /\ UserTurn
        /\ UNCHANGED <<copies, saved, server, state, cycle>>
    BY <1>2 DEF UserWrite, UserDelete, UserTurn
  <2>3. DiskOK' /\ BookkeepingOK'
    BY <2>1, <2>2 DEF DiskOK, BookkeepingOK, UserTurn, Spent, Counters
  <2>4. ServerOK' /\ StateOK' /\ StepOK' /\ PlanOK' /\ CycleOK' /\ PlansInLog'
    BY <2>2 DEF server, state, cycle, ServerOK, StateOK, StepOK, PlanOK, CycleOK,
                PlansInLog, Entries
  <2> QED
    BY <2>3, <2>4
<1>3. ASSUME NEW p \in Paths, RemotePut(p) \/ RemoteDelete(p)
      PROVE TypeInv'
  <2>1. PICK c \in Nat : log' = Append(log, Entry(p, c, FALSE))
    BY <1>1, <1>3 DEF RemotePut, RemoteDelete, Absent
  <2>2. RemoteTurn /\ UNCHANGED <<disk, pruned, state, cycle, wanted>>
    BY <1>3 DEF RemotePut, RemoteDelete, RemoteTurn
  <2>3. ServerOK' /\ LogKept
    BY <2>1, <2>2, LogGrows
  <2>4. BookkeepingOK'
    BY <2>2, SpentTyped DEF RemoteTurn
  <2>5. DiskOK' /\ StateOK' /\ StepOK' /\ PlanOK' /\ CycleOK' /\ UNCHANGED plan
    BY <2>2 DEF disk, state, cycle, DiskOK, StateOK, StepOK, PlanOK, CycleOK
  <2>6. PlansInLog'
    BY <2>3, <2>5, PlansStay
  <2> QED
    BY <2>3, <2>4, <2>5, <2>6
<1>4. ASSUME NEW i \in DOMAIN log, PruneRevision(i)
      PROVE TypeInv'
  <2>1. /\ Spent("gone") /\ pruned' = pruned \cup {i}
        /\ UNCHANGED <<disk, log, state, cycle, wanted>>
    BY <1>4 DEF PruneRevision
  <2>2. i \in Nat
    BY DEF ServerOK
  <2>3. ServerOK'
    BY <2>1, <2>2 DEF ServerOK
  <2>4. BookkeepingOK'
    BY <2>1, SpentTyped
  <2>5. DiskOK' /\ StateOK' /\ StepOK' /\ PlanOK' /\ CycleOK' /\ PlansInLog'
    BY <2>1 DEF disk, state, cycle, DiskOK, StateOK, StepOK, PlanOK, CycleOK,
                PlansInLog, Entries
  <2> QED
    BY <2>3, <2>4, <2>5
<1> QED
  BY <1>2, <1>3, <1>4 DEF Environment

(* The missing row is a row.                                               *)
LEMMA NoRowTyped == NoRow \in Rows
BY DEF NoRow, Rows, Version, Absent, NoVersion

(* Poll and Bootstrap hand their plans to Execute.                         *)
LEMMA ExecuteTyped ==
  ASSUME TypeInv, NEW plans, NEW to \in Nat, NEW first \in Nat, NEW rows,
         Execute(plans, to, first, rows), UNCHANGED <<log, scan>>,
         plans \in [Paths -> [act : Actions, rev : Version]],
         \A p \in Paths :
           plans[p].rev # NoVersion => plans[p].rev \in Entries(p)
  PROVE  StepOK' /\ PlanOK' /\ CycleOK' /\ PlansInLog'
<1>1. CASE TooManyDeletes(plans, rows)
  BY <1>1, CycleEnds DEF Execute, Abandon
<1>2. CASE ~TooManyDeletes(plans, rows)
  BY <1>2 DEF Execute, TypeInv, TypeOK, StepOK, PlanOK, CycleOK, PlansInLog,
              Entries, Version
<1> QED
  BY <1>1, <1>2

(* Everything before the first handler keeps the type invariant.           *)
LEMMA PlanningTyped ==
  ASSUME TypeInv, Walk \/ Poll \/ Bootstrap \/ PollFails \/ PollCursorGone
  PROVE  TypeInv'
<1> USE DEF TypeInv, TypeOK
<1>1. CASE Walk
  <2>1. StateOK' /\ CycleOK'
    BY <1>1, NoRowTyped DEF Walk, StateOK, CycleOK, DiskOK
  <2>2. DiskOK' /\ ServerOK' /\ BookkeepingOK' /\ StepOK' /\ PlanOK' /\ PlansInLog'
    BY <1>1 DEF Walk, disk, server, DiskOK, ServerOK, BookkeepingOK, StepOK,
                PlanOK, PlansInLog, Entries
  <2> QED
    BY <2>1, <2>2
<1>2. CASE PollCursorGone
  <2>1. StateOK' /\ CycleOK'
    BY <1>2, NoRowTyped DEF PollCursorGone, StateOK, CycleOK, DiskOK
  <2>2. BookkeepingOK'
    BY <1>2, SpentTyped DEF PollCursorGone
  <2>3. DiskOK' /\ ServerOK' /\ StepOK' /\ PlanOK' /\ PlansInLog'
    BY <1>2 DEF PollCursorGone, disk, server, DiskOK, ServerOK, StepOK,
                PlanOK, PlansInLog, Entries
  <2> QED
    BY <2>1, <2>2, <2>3
<1>3. CASE PollFails
  <2>1. StepOK' /\ PlanOK' /\ CycleOK' /\ PlansInLog'
    BY <1>3, CycleEnds DEF PollFails, Abandon
  <2>2. BookkeepingOK'
    BY <1>3, SpentTyped DEF PollFails
  <2>3. DiskOK' /\ ServerOK' /\ StateOK'
    BY <1>3 DEF PollFails, disk, server, state, DiskOK, ServerOK, StateOK
  <2> QED
    BY <2>1, <2>2, <2>3
<1>4. CASE Poll
  <2> DEFINE rev(p) == IF EventKind(Event(p)) = "put" THEN Event(p) ELSE NoVersion
             act(p) == IncrementalAction(scan[p], archive[p].hash,
                                         EventKind(Event(p)))
             plans == [p \in Paths |-> Plan(act(p), rev(p))]
             first == IF cursor < Len(log) THEN cursor + 1 ELSE 0
  <2>1. Len(log) \in Nat /\ first \in Nat
    BY DEF ServerOK, StateOK, Version, NoCursor
  <2>2. ASSUME NEW p \in Paths
        PROVE /\ act(p) \in Actions /\ rev(p) \in Version
              /\ rev(p) # NoVersion => rev(p) \in Entries(p)
    <3>1. act(p) \in Actions
      BY ActionsTyped
    <3>2. rev(p) \in Version /\ (rev(p) # NoVersion => rev(p) \in Entries(p))
      BY EventInLog DEF Version, NoVersion
    <3> QED
      BY <3>1, <3>2
  <2>3. Execute(plans, Len(log), first, archive)
        /\ UNCHANGED <<disk, server, state, scan, wanted, used>>
    BY <1>4 DEF Poll
  <2>4. StepOK' /\ PlanOK' /\ CycleOK' /\ PlansInLog'
    <3>1. plans \in [Paths -> [act : Actions, rev : Version]]
      BY <2>2 DEF Plan
    <3>2. \A p \in Paths : plans[p].rev # NoVersion => plans[p].rev \in Entries(p)
      BY <2>2 DEF Plan
    <3> HIDE DEF plans, first
    <3> QED
      BY <2>1, <2>3, <3>1, <3>2, ExecuteTyped DEF server
  <2>5. DiskOK' /\ ServerOK' /\ StateOK' /\ BookkeepingOK'
    BY <2>3 DEF disk, server, state, DiskOK, ServerOK, StateOK, BookkeepingOK
  <2> QED
    BY <2>4, <2>5
<1>5. CASE Bootstrap
  <2> DEFINE identical(p) == scan[p] # Absent /\ scan[p] = TipContent(p)
             row(p) == IF identical(p) THEN Row(scan[p], Tip(p), Tip(p)) ELSE NoRow
             rows == [p \in Paths |-> row(p)]
             remote(p) == TipContent(p) # Absent
             act(p) == FullAction(scan[p], rows[p].hash, remote(p))
             rev(p) == IF remote(p) THEN Tip(p) ELSE NoVersion
             plans == [p \in Paths |-> Plan(act(p), rev(p))]
  <2>1. ASSUME NEW p \in Paths
        PROVE /\ act(p) \in Actions /\ rev(p) \in Version /\ row(p) \in Rows
              /\ rev(p) # NoVersion => rev(p) \in Entries(p)
    <3>1. act(p) \in Actions
      BY ActionsTyped
    <3>2. rev(p) \in Version /\ (rev(p) # NoVersion => rev(p) \in Entries(p))
      BY TipHolds DEF Version, NoVersion, Holds
    <3>3. row(p) \in Rows
      BY TipHolds, NoRowTyped DEF Row, Rows, Version, CycleOK
    <3> QED
      BY <3>1, <3>2, <3>3
  <2>2. /\ archive' = rows /\ Execute(plans, Len(log), 0, rows)
        /\ UNCHANGED <<disk, server, cursor, pushed, scan, wanted, used>>
    BY <1>5 DEF Bootstrap
  <2>3. StepOK' /\ PlanOK' /\ CycleOK' /\ PlansInLog'
    <3>1. plans \in [Paths -> [act : Actions, rev : Version]]
      BY <2>1 DEF Plan
    <3>2. \A p \in Paths : plans[p].rev # NoVersion => plans[p].rev \in Entries(p)
      BY <2>1 DEF Plan
    <3>3. Len(log) \in Nat
      BY DEF ServerOK
    <3> HIDE DEF plans, rows
    <3> QED
      BY <2>2, <3>1, <3>2, <3>3, ExecuteTyped DEF server
  <2>4. archive' \in [Paths -> Rows]
    BY <2>1, <2>2
  <2> HIDE DEF plans, rows
  <2>5. DiskOK' /\ ServerOK' /\ StateOK' /\ BookkeepingOK'
    BY <2>2, <2>4 DEF disk, server, DiskOK, ServerOK, StateOK, BookkeepingOK
  <2> QED
    BY <2>3, <2>5
<1> QED
  BY <1>1, <1>2, <1>3, <1>4, <1>5

(* A handler in progress works on a path.                                  *)
LEMMA StepPathTyped ==
  ASSUME StepOK, NEW where, At(where), where # "none"
  PROVE  step.path \in Paths
BY DEF StepOK, At

(* Writing a typed row keeps the records typed.                            *)
LEMMA RowWritten ==
  ASSUME StateOK, NEW p, NEW r \in Rows, archive' = [archive EXCEPT ![p] = r],
         UNCHANGED <<cursor, pushed>>
  PROVE  StateOK'
BY DEF StateOK

(* Handlers that only read, write or delete local files and rows.          *)
LEMMA LocalHandlersTyped ==
  ASSUME TypeInv,
         \/ \E p \in Paths : PullFetch(p) \/ DeleteLocal(p) \/ ConflictFetch(p)
         \/ Record \/ PullCheck \/ PullRename \/ ConflictCompare
  PROVE  TypeInv'
<1> USE DEF TypeInv, TypeOK
<1>0. ASSUME UNCHANGED server PROVE ServerOK' /\ LogKept
  BY <1>0, LogUnchanged DEF server, ServerOK
<1>a. ASSUME UNCHANGED <<wanted, used>> PROVE BookkeepingOK'
  BY <1>a DEF BookkeepingOK
<1>b. ASSUME UNCHANGED disk PROVE DiskOK'
  BY <1>b DEF DiskOK, disk
<1>c. ASSUME UNCHANGED state PROVE StateOK'
  BY <1>c DEF StateOK, state
<1>d. ASSUME NEW p \in Paths, NEW where \in Downloading, NEW pre \in Nat,
             Fetched(p, plan[p].rev).got # Absent
      PROVE  LET s == FetchStep(p, where, pre)
             IN  s \in Steps /\ s.path \in Paths /\ s.got # Absent
  <2>1. LET f == Fetched(p, plan[p].rev)
        IN  f.got \in Nat /\ f.cv \in Nat /\ f.rev \in Nat
    BY FetchedTyped
  <2> QED
    BY <1>d, <2>1 DEF FetchStep, Steps, Version
<1>1. ASSUME NEW p \in Paths, PullFetch(p) PROVE TypeInv'
  <2> DEFINE pre == IF HasRow(p) THEN local[p] ELSE Absent
  <2>1. UnchangedCycle /\ UNCHANGED <<disk, server, state, wanted, used>>
    BY <1>1 DEF PullFetch
  <2>2. pre \in Nat
    BY DEF DiskOK, Absent
  <2>3. \/ Done(p)
        \/ /\ Fetched(p, plan[p].rev).got # Absent
           /\ Continue(FetchStep(p, "pull_check", pre))
    BY <1>1 DEF PullFetch
  <2>4. StepOK' /\ PlanOK' /\ CycleOK' /\ PlansInLog'
    <3>1. CASE Done(p)
      BY <2>1, <3>1, <1>0, HandlerEnds
    <3>2. CASE Fetched(p, plan[p].rev).got # Absent
               /\ Continue(FetchStep(p, "pull_check", pre))
      <4> HIDE DEF pre
      <4>1. LET s == FetchStep(p, "pull_check", pre)
            IN  s \in Steps /\ s.path \in Paths /\ s.got # Absent
        BY <1>d, <2>2, <3>2 DEF Downloading
      <4> QED
        BY <2>1, <3>2, <4>1, <1>0, HandlerContinues
    <3> QED
      BY <2>3, <3>1, <3>2
  <2> QED
    BY <2>1, <2>4, <1>0, <1>a, <1>b, <1>c
<1>2. ASSUME NEW p \in Paths, DeleteLocal(p) PROVE TypeInv'
  <2>1. /\ local' = [local EXCEPT ![p] = Absent]
        /\ archive' = [archive EXCEPT ![p] = NoRow]
        /\ Done(p) /\ UnchangedCycle
        /\ UNCHANGED <<copies, saved, server, cursor, pushed, wanted, used>>
    BY <1>2 DEF DeleteLocal
  <2>2. StepOK' /\ PlanOK' /\ CycleOK' /\ PlansInLog'
    BY <2>1, <1>0, HandlerEnds
  <2>3. DiskOK'
    BY <2>1 DEF DiskOK, Absent
  <2>4. StateOK'
    BY <2>1, NoRowTyped, RowWritten
  <2> QED
    BY <2>1, <2>2, <2>3, <2>4, <1>0, <1>a
<1>3. ASSUME NEW p \in Paths, ConflictFetch(p) PROVE TypeInv'
  <2> DEFINE pushStep == [NoStep EXCEPT !.at = "conflict_push", !.path = p]
  <2>1. UnchangedCycle /\ UNCHANGED <<disk, server, state, wanted, used>>
    BY <1>3 DEF ConflictFetch
  <2>2. \/ Continue(pushStep)
        \/ /\ Fetched(p, plan[p].rev).got # Absent
           /\ Continue(FetchStep(p, "conflict_compare", Absent))
    BY <1>3 DEF ConflictFetch
  <2>3. StepOK' /\ PlanOK' /\ CycleOK' /\ PlansInLog'
    <3>1. CASE Continue(pushStep)
      <4>1. pushStep \in Steps /\ pushStep.path \in Paths
            /\ pushStep.at \notin Downloading
        BY DEF NoStep, Steps, Absent, NoVersion, Version, Downloading
      <4> HIDE DEF pushStep
      <4> QED
        BY <2>1, <3>1, <4>1, <1>0, HandlerContinues
    <3>2. CASE Fetched(p, plan[p].rev).got # Absent
               /\ Continue(FetchStep(p, "conflict_compare", Absent))
      <4>1. LET s == FetchStep(p, "conflict_compare", Absent)
            IN  s \in Steps /\ s.path \in Paths /\ s.got # Absent
        <5>1. Absent \in Nat /\ "conflict_compare" \in Downloading
          BY DEF Absent, Downloading
        <5> QED
          BY <1>d, <3>2, <5>1
      <4> QED
        BY <2>1, <3>2, <4>1, <1>0, HandlerContinues
    <3> QED
      BY <2>2, <3>1, <3>2
  <2> QED
    BY <2>1, <2>3, <1>0, <1>a, <1>b, <1>c
<1>4. CASE Record
  <2>1. /\ At("record") /\ UnchangedCycle
        /\ UNCHANGED <<disk, server, cursor, pushed, wanted, used>>
        /\ \/ /\ archive' = [archive EXCEPT ![step.path] =
                               Row(local[step.path], step.cv, step.rev)]
              /\ Done(step.path)
           \/ UNCHANGED archive /\ Fail(step.path)
    BY <1>4 DEF Record
  <2>2. StepOK' /\ PlanOK' /\ CycleOK' /\ PlansInLog'
    BY <2>1, <1>0, HandlerEnds
  <2>3. Row(local[step.path], step.cv, step.rev) \in Rows
    BY <2>1, StepPathTyped DEF Row, Rows, DiskOK, StepOK, Steps
  <2>4. StateOK'
    BY <2>1, <2>3, RowWritten DEF StateOK
  <2> QED
    BY <2>1, <2>2, <2>4, <1>0, <1>a, <1>b
<1>5. CASE PullCheck
  <2> DEFINE next == [step EXCEPT !.at = "pull_rename"]
  <2>1. /\ At("pull_check") /\ UnchangedCycle
        /\ UNCHANGED <<disk, server, state, wanted, used>>
        /\ Done(step.path) \/ Continue(next)
    BY <1>5 DEF PullCheck
  <2>2. next \in Steps /\ next.path \in Paths /\ next.got # Absent
    BY <2>1 DEF At, StepOK, Steps, Downloading
  <2>3. StepOK' /\ PlanOK' /\ CycleOK' /\ PlansInLog'
    <3> HIDE DEF next
    <3> QED
      BY <2>1, <2>2, <1>0, HandlerEnds, HandlerContinues
  <2> QED
    BY <2>1, <2>3, <1>0, <1>a, <1>b, <1>c
<1>6. CASE PullRename
  <2> DEFINE next == [step EXCEPT !.at = "record"]
  <2>1. /\ At("pull_rename") /\ UnchangedCycle
        /\ local' = [local EXCEPT ![step.path] = step.got]
        /\ UNCHANGED <<copies, saved, server, state, wanted, used>>
        /\ Continue(next)
    BY <1>6 DEF PullRename
  <2>2. next \in Steps /\ next.path \in Paths /\ next.at \notin Downloading
    BY <2>1 DEF At, StepOK, Steps, Downloading
  <2>3. StepOK' /\ PlanOK' /\ CycleOK' /\ PlansInLog'
    <3> HIDE DEF next
    <3> QED
      BY <2>1, <2>2, <1>0, HandlerContinues
  <2>4. DiskOK'
    BY <2>1 DEF DiskOK, StepOK, Steps
  <2> QED
    BY <2>1, <2>3, <2>4, <1>0, <1>a, <1>c
<1>7. CASE ConflictCompare
  <2> DEFINE p == step.path
             next == [NoStep EXCEPT !.at = "conflict_push", !.path = p]
  <2>1. /\ At("conflict_compare") /\ UnchangedCycle
        /\ UNCHANGED <<local, saved, server, cursor, pushed, wanted, used>>
        /\ \/ /\ archive' = [archive EXCEPT ![p] =
                               Row(local[p], step.cv, step.rev)]
              /\ Done(p) /\ UNCHANGED copies
           \/ /\ copies' = copies \cup {step.got}
              /\ Continue(next) /\ UNCHANGED archive
    BY <1>7 DEF ConflictCompare
  <2>2. p \in Paths /\ step.got \in Nat \ {Absent}
    BY <2>1 DEF At, StepOK, Steps, Downloading
  <2>3. next \in Steps /\ next.path \in Paths /\ next.at \notin Downloading
    BY <2>2 DEF NoStep, Steps, Absent, NoVersion, Version, Downloading
  <2>4. StepOK' /\ PlanOK' /\ CycleOK' /\ PlansInLog'
    <3> HIDE DEF next
    <3> QED
      BY <2>1, <2>3, <1>0, HandlerEnds, HandlerContinues
  <2>5. DiskOK'
    BY <2>1, <2>2 DEF DiskOK
  <2>6. StateOK'
    <3>1. Row(local[p], step.cv, step.rev) \in Rows
      BY <2>2 DEF Row, Rows, DiskOK, StepOK, Steps
    <3> QED
      BY <2>1, <3>1, RowWritten DEF StateOK
  <2> QED
    BY <2>1, <2>4, <2>5, <2>6, <1>0, <1>a
<1> QED
  BY <1>1, <1>2, <1>3, <1>4, <1>5, <1>6, <1>7

(* The step after an upload is typed, whatever version it records.         *)
LEMMA RecordStepTyped ==
  ASSUME NEW p \in Paths, NEW n \in Nat
  PROVE  LET s == [RecordStep(p) EXCEPT !.cv = n]
         IN  /\ s \in Steps /\ s.at = "record" /\ s.path = p /\ s.cv = n
             /\ s.at \notin Downloading
BY DEF RecordStep, NoStep, Steps, Absent, NoVersion, Version, Downloading

(* The step after an upload records the new entry.                         *)
LEMMA UploadStepTyped ==
  ASSUME ServerOK, NEW p \in Paths
  PROVE  /\ RecordStep(p) \in Steps /\ RecordStep(p).at = "record"
         /\ RecordStep(p).path = p /\ RecordStep(p).cv = Len(log) + 1
         /\ RecordStep(p).at \notin Downloading
<1>1. Len(log) + 1 \in Nat
  BY DEF ServerOK
<1> QED
  BY <1>1 DEF RecordStep, NoStep, Steps, Absent, NoVersion, Version, Downloading

(* What an upload sent twice does to a log.                                *)
LEMMA AppendedTwice ==
  ASSUME NEW l \in Seq(LogEntry), NEW e \in LogEntry
  PROVE  LET twice == Append(Append(l, e), e)
         IN  /\ twice \in Seq(LogEntry) /\ Len(twice) = Len(l) + 2
             /\ \A i \in 1..Len(l) : twice[i] = l[i]
             /\ twice[Len(l) + 2] = e
<1>1. PICK once : once = Append(l, e)
  OBVIOUS
<1>2. /\ once \in Seq(LogEntry) /\ Len(once) = Len(l) + 1 /\ Len(l) \in Nat
      /\ \A i \in 1..Len(l) : once[i] = l[i]
  BY <1>1
<1>3. PICK twice : twice = Append(once, e)
  OBVIOUS
<1>4. /\ twice \in Seq(LogEntry) /\ Len(twice) = Len(l) + 2
      /\ \A i \in 1..Len(l) : twice[i] = l[i]
      /\ twice[Len(l) + 2] = e
  BY <1>2, <1>3
<1> QED
  BY <1>1, <1>3, <1>4

(* Handlers that upload or delete on the server.                           *)
LEMMA RemoteHandlersTyped ==
  ASSUME TypeInv,
         \/ \E p \in Paths : \/ PushUpload(p) \/ PushReplyLost(p)
                             \/ DeleteRemote(p) \/ DeleteReplyLost(p)
         \/ ConflictPush \/ ConflictReplyLost \/ RequestFails
  PROVE  TypeInv'
<1> USE DEF TypeInv, TypeOK
<1>0. ASSUME UNCHANGED <<log, pruned>> PROVE ServerOK' /\ LogKept
  BY <1>0, LogUnchanged DEF ServerOK
<1>a. ASSUME UNCHANGED <<wanted, used>> PROVE BookkeepingOK'
  BY <1>a DEF BookkeepingOK
<1>b. ASSUME UNCHANGED disk PROVE DiskOK'
  BY <1>b DEF DiskOK, disk
<1>c. ASSUME UNCHANGED wanted, Spent("faults") PROVE BookkeepingOK'
  BY <1>c, SpentTyped
<1>d. ASSUME NEW p \in Paths
      PROVE  local[p] \in Nat /\ Absent \in Nat /\ Len(log) + 1 \in Nat
  BY DEF DiskOK, Absent, ServerOK
<1>e. ASSUME pushed' = pushed \/ pushed' = pushed \cup {Len(log')},
             Len(log') \in Nat, UNCHANGED cursor,
             UNCHANGED archive \/ \E p : archive' = [archive EXCEPT ![p] = NoRow]
      PROVE  StateOK'
  BY <1>e, NoRowTyped DEF StateOK
<1>1. ASSUME NEW p \in Paths, PushUpload(p) PROVE TypeInv'
  <2>1. UnchangedCycle /\ UNCHANGED <<disk, pruned, archive, cursor, wanted, used>>
    BY <1>1 DEF PushUpload
  <2>2. CASE local[p] # Absent /\ Precondition(p)
    <3>1. /\ log' = Append(log, Entry(p, local[p], TRUE))
          /\ pushed' = pushed \cup {Len(log')}
          /\ Continue(RecordStep(p))
      BY <1>1, <2>2 DEF PushUpload
    <3>2. ServerOK' /\ LogKept /\ Len(log') \in Nat
      BY <1>d, <2>1, <3>1, LogGrows
    <3>3. StepOK' /\ PlanOK' /\ CycleOK' /\ PlansInLog'
      BY <1>d, <2>1, <3>1, <3>2, UploadStepTyped, HandlerContinues
    <3> QED
      BY <2>1, <3>1, <3>2, <3>3, <1>a, <1>b, <1>e
  <2>3. CASE ~(local[p] # Absent /\ Precondition(p))
    <3>1. UNCHANGED <<log, pushed>> /\ Fail(p)
      BY <1>1, <2>3 DEF PushUpload
    <3>2. Len(log') \in Nat
      BY <3>1 DEF ServerOK
    <3> QED
      BY <2>1, <3>1, <3>2, <1>0, <1>a, <1>b, <1>e, HandlerEnds
  <2> QED
    BY <2>2, <2>3
<1>2. ASSUME NEW p \in Paths, NEW c \in Nat, log' = Append(log, Entry(p, c, TRUE)),
             Fail(p), UnchangedCycle, Spent("faults"),
             UNCHANGED <<disk, pruned, state, wanted>>
      PROVE TypeInv'
  <2>1. ServerOK' /\ LogKept /\ Len(log') \in Nat
    BY <1>2, LogGrows
  <2>2. StateOK'
    BY <1>2, <1>e, <2>1 DEF state
  <2> QED
    BY <1>2, <2>1, <2>2, <1>b, <1>c, HandlerEnds
<1>3. ASSUME NEW p \in Paths, PushReplyLost(p) \/ DeleteReplyLost(p) PROVE TypeInv'
  BY <1>2, <1>3, <1>d DEF PushReplyLost, DeleteReplyLost
<1>4. ASSUME NEW p \in Paths, DeleteRemote(p) PROVE TypeInv'
  <2>1. UnchangedCycle /\ UNCHANGED <<disk, pruned, cursor, wanted, used>>
    BY <1>4 DEF DeleteRemote
  <2>2. CASE TipContent(p) # Absent
    <3>1. /\ log' = Append(log, Entry(p, Absent, TRUE))
          /\ pushed' = pushed \cup {Len(log')}
          /\ archive' = [archive EXCEPT ![p] = NoRow]
          /\ Done(p)
      BY <1>4, <2>2 DEF DeleteRemote
    <3>2. ServerOK' /\ LogKept /\ Len(log') \in Nat
      BY <1>d, <2>1, <3>1, LogGrows
    <3> QED
      BY <2>1, <3>1, <3>2, <1>a, <1>b, <1>e, HandlerEnds
  <2>3. CASE TipContent(p) = Absent
    <3>1. UNCHANGED <<log, pushed, archive>> /\ Fail(p)
      BY <1>4, <2>3 DEF DeleteRemote
    <3>2. Len(log') \in Nat
      BY <3>1 DEF ServerOK
    <3> QED
      BY <2>1, <3>1, <3>2, <1>0, <1>a, <1>b, <1>e, HandlerEnds
  <2> QED
    BY <2>2, <2>3
<1>5. CASE ConflictPush
  <2> DEFINE p == step.path
  <2>1. UnchangedCycle /\ UNCHANGED <<disk, pruned, cursor, wanted, used>>
    BY <1>5 DEF ConflictPush
  <2>2. p \in Paths
    BY <1>5, StepPathTyped DEF ConflictPush
  <2>3. CASE local[p] = Absent
    <3>1. /\ archive' = [archive EXCEPT ![p] = NoRow]
          /\ Done(p) /\ UNCHANGED <<log, pushed>>
      BY <1>5, <2>3 DEF ConflictPush
    <3>2. Len(log') \in Nat
      BY <3>1 DEF ServerOK
    <3> QED
      BY <2>1, <3>1, <3>2, <1>0, <1>a, <1>b, <1>e, HandlerEnds
  <2>4. CASE local[p] # Absent
    <3>1. /\ log' = Append(log, Entry(p, local[p], TRUE))
          /\ pushed' = pushed \cup {Len(log')}
          /\ Continue(RecordStep(p)) /\ UNCHANGED archive
      BY <1>5, <2>4 DEF ConflictPush
    <3>2. ServerOK' /\ LogKept /\ Len(log') \in Nat
      BY <1>d, <2>1, <2>2, <3>1, LogGrows
    <3>3. StepOK' /\ PlanOK' /\ CycleOK' /\ PlansInLog'
      BY <1>d, <2>1, <2>2, <3>1, <3>2, UploadStepTyped, HandlerContinues
    <3> QED
      BY <2>1, <3>1, <3>2, <3>3, <1>a, <1>b, <1>e
  <2> QED
    BY <2>3, <2>4
<1>6. CASE ConflictReplyLost
  <2> DEFINE p == step.path
             once == Append(log, Entry(p, local[p], TRUE))
             twice == Append(once, Entry(p, local[p], TRUE))
             next == [RecordStep(p) EXCEPT !.cv = Len(log')]
  <2>1. /\ UnchangedCycle /\ Spent("faults")
        /\ UNCHANGED <<disk, pruned, archive, cursor, wanted>>
    BY <1>6 DEF ConflictReplyLost
  <2>2. p \in Paths
    BY <1>6, StepPathTyped DEF ConflictReplyLost
  <2>3. CASE log' = twice /\ pushed' = pushed \cup {Len(log')} /\ Continue(next)
    <3>1. ServerOK' /\ LogKept /\ Len(log') \in Nat
      <4>1. Entry(p, local[p], TRUE) \in LogEntry
        BY <1>d, <2>2 DEF Entry, LogEntry
      <4>2. /\ log \in Seq(LogEntry) /\ Len(log) \in Nat
            /\ twice \in Seq(LogEntry) /\ Len(twice) = Len(log) + 2
            /\ \A i \in 1..Len(log) : twice[i] = log[i]
        <5>1. PICK e \in LogEntry : e = Entry(p, local[p], TRUE)
          BY <4>1
        <5>2. twice = Append(Append(log, e), e)
          BY <5>1
        <5> HIDE DEF twice
        <5> QED
          BY <5>2, AppendedTwice DEF ServerOK
      <4> HIDE DEF twice
      <4> QED
        BY <2>1, <2>3, <4>2 DEF ServerOK, LogKept
    <3>2. StepOK' /\ PlanOK' /\ CycleOK' /\ PlansInLog'
      <4>1. next \in Steps /\ next.path \in Paths /\ next.at \notin Downloading
        BY <2>2, <3>1, RecordStepTyped
      <4> HIDE DEF next
      <4> QED
        BY <2>1, <2>3, <3>1, <4>1, HandlerContinues
    <3> QED
      BY <2>1, <2>3, <3>1, <3>2, <1>b, <1>c, <1>e
  <2>4. CASE log' = once /\ UNCHANGED pushed /\ Fail(p)
    <3>1. UNCHANGED <<disk, pruned, state, wanted>>
      BY <2>1, <2>4 DEF state
    <3> QED
      BY <1>d, <1>2, <2>1, <2>2, <2>4, <3>1
  <2> QED
    BY <1>6, <2>3, <2>4 DEF ConflictReplyLost
<1>7. CASE RequestFails
  <2>1. /\ UnchangedCycle /\ UNCHANGED <<disk, server, state, wanted>>
        /\ Spent("faults") /\ \E p : Fail(p)
    BY <1>7 DEF RequestFails
  <2>2. UNCHANGED <<log, pruned>> /\ UNCHANGED <<archive, cursor, pushed>>
    BY <2>1 DEF server, state
  <2>3. StateOK'
    BY <2>2 DEF StateOK
  <2> QED
    BY <2>1, <2>2, <2>3, <1>0, <1>b, <1>c, HandlerEnds
<1> QED
  BY <1>1, <1>3, <1>4, <1>5, <1>6, <1>7

(* The end of a cycle, and of the process, keeps the type invariant.       *)
LEMMA EndingTyped ==
  ASSUME TypeInv, Finish \/ SaveFails \/ Crash
  PROVE  TypeInv'
<1> USE DEF TypeInv, TypeOK
<1>1. ASSUME AdvanceCursor, PrunePushedSeqs, UNCHANGED archive PROVE StateOK'
  BY <1>1 DEF AdvanceCursor, PrunePushedSeqs, StateOK, CycleOK
<1>2. CASE Finish
  <2>1. StepOK' /\ PlanOK' /\ CycleOK' /\ PlansInLog'
    BY <1>2, CycleEnds DEF Finish, Abandon
  <2>2. StateOK'
    BY <1>1, <1>2 DEF Finish
  <2>3. DiskOK'
    BY <1>2, <2>2 DEF Finish, Memory, DiskOK, StateOK
  <2>4. ServerOK' /\ BookkeepingOK'
    BY <1>2 DEF Finish, server, ServerOK, BookkeepingOK
  <2> QED
    BY <2>1, <2>2, <2>3, <2>4
<1>3. CASE SaveFails
  <2>1. StepOK' /\ PlanOK' /\ CycleOK' /\ PlansInLog'
    BY <1>3, CycleEnds DEF SaveFails, Abandon
  <2>2. StateOK'
    BY <1>1, <1>3 DEF SaveFails
  <2>3. BookkeepingOK'
    BY <1>3, SpentTyped DEF SaveFails
  <2>4. DiskOK' /\ ServerOK'
    BY <1>3 DEF SaveFails, disk, server, DiskOK, ServerOK
  <2> QED
    BY <2>1, <2>2, <2>3, <2>4
<1>4. CASE Crash
  <2>1. StepOK' /\ PlanOK' /\ CycleOK' /\ PlansInLog'
    BY <1>4, CycleEnds DEF Crash, Reload
  <2>2. saved' \in [archive : [Paths -> Rows], cursor : Version \cup {NoCursor},
                    pushed : SUBSET Nat]
    BY <1>4, NoRowTyped DEF Crash, DiskOK, Empty
  <2>3. DiskOK' /\ StateOK'
    BY <1>4, <2>2 DEF Crash, Reload, DiskOK, StateOK
  <2>4. BookkeepingOK'
    BY <1>4, SpentTyped DEF Crash
  <2>5. ServerOK'
    BY <1>4 DEF Crash, server, ServerOK
  <2> QED
    BY <2>1, <2>3, <2>4, <2>5
<1> QED
  BY <1>2, <1>3, <1>4

(* A stuttering step keeps the type invariant.                             *)
LEMMA StutterTyped ==
  ASSUME TypeInv, UNCHANGED vars
  PROVE  TypeInv'
BY DEF TypeInv, TypeOK, vars, disk, server, state, cycle, DiskOK, ServerOK,
       StateOK, StepOK, PlanOK, CycleOK, BookkeepingOK, PlansInLog, Entries

(* Whatever edits, remote changes, faults and crashes happen, every        *)
(* variable of the cycle keeps its type; in particular a download in       *)
(* progress always has a content, and a plan always names a revision of    *)
(* its own path.                                                           *)
THEOREM TypeInvariant == Spec => []TypeInv
<1>1. TypeInv /\ [Next]_vars => TypeInv'
  BY EnvironmentTyped, PlanningTyped, LocalHandlersTyped, RemoteHandlersTyped,
     EndingTyped, StutterTyped DEF Next, Cycle, Handlers, Faults
<1> QED
  BY InitTyped, <1>1, PTL DEF Spec

(* TypeOK, of the state of the cycle (runner.go, executor*.go), always     *)
(* holds.                                                                  *)
THEOREM TypeCorrect == Spec => []TypeOK
<1>1. TypeInv => TypeOK
  BY DEF TypeInv
<1> QED
  BY TypeInvariant, <1>1, PTL

-----------------------------------------------------------------------------
(* Archive rows tell the truth, as long as the user keeps still while a    *)
(* cycle runs.  ArchiveTruthful alone is not inductive: a row is written   *)
(* from the handler in progress, so that must be true as well, and stay    *)
(* true until it is written.                                               *)

StepTruthful ==
  /\ step.at = "record" => Holds(step.path, step.cv, local[step.path])
  /\ step.at \in Downloading => Holds(step.path, step.cv, step.got)
BusyExecutes == step.at # "none" => pc = "executing"
Truth == ArchiveTruthful /\ StepTruthful /\ BusyExecutes

(* What is true of a version stays true.                                   *)
LEMMA HoldsStays ==
  ASSUME LogKept, NEW p, NEW cv, NEW c, Holds(p, cv, c)
  PROVE  Holds(p, cv, c)'
BY DEF LogKept, Holds, Entries, ContentOf

(* So do the rows in memory when they are left alone,                      *)
LEMMA ArchiveStays ==
  ASSUME LogKept, RowsTruthful(archive), UNCHANGED archive
  PROVE  RowsTruthful(archive)'
BY DEF LogKept, RowsTruthful, Entries, ContentOf

(* and those in state.db.                                                  *)
LEMMA SavedStays ==
  ASSUME LogKept, RowsTruthful(saved.archive), UNCHANGED saved
  PROVE  RowsTruthful(saved.archive)'
BY DEF LogKept, RowsTruthful, Entries, ContentOf

(* Removing a row makes nothing false.                                     *)
LEMMA RowRemoved ==
  ASSUME LogKept, StateOK, RowsTruthful(archive), NEW p,
         archive' = [archive EXCEPT ![p] = NoRow]
  PROVE  RowsTruthful(archive)'
BY DEF LogKept, StateOK, RowsTruthful, Entries, ContentOf

(* Nor does writing a row that is true of the log.                         *)
LEMMA TrueRowWritten ==
  ASSUME LogKept, StateOK, RowsTruthful(archive), NEW p \in Paths,
         NEW h, NEW cv, NEW rev, Holds(p, cv, h),
         archive' = [archive EXCEPT ![p] = Row(h, cv, rev)]
  PROVE  RowsTruthful(archive)'
BY DEF LogKept, StateOK, RowsTruthful, Entries, ContentOf, Holds, Row

(* An empty archive says nothing false.                                    *)
LEMMA ArchiveCleared ==
  ASSUME archive' = [p \in Paths |-> NoRow]
  PROVE  RowsTruthful(archive)'
BY DEF RowsTruthful

(* The handler in progress is not disturbed by what happens on the server. *)
LEMMA StepStays ==
  ASSUME LogKept, StepTruthful, BusyExecutes, UNCHANGED <<step, local, pc>>
  PROVE  StepTruthful' /\ BusyExecutes'
BY DEF LogKept, StepTruthful, BusyExecutes, Holds, Entries, ContentOf

(* Between two handlers there is nothing to be true.                       *)
LEMMA NothingInProgress ==
  ASSUME step'.at = "none"
  PROVE  StepTruthful' /\ BusyExecutes'
BY DEF StepTruthful, BusyExecutes, Downloading

(* The archive is truthful at the start.                                   *)
LEMMA InitTruth == Init => Truth
<1> SUFFICES ASSUME Init PROVE Truth
  OBVIOUS
<1>1. ArchiveTruthful
  BY DEF Init, ArchiveTruthful, RowsTruthful
<1>2. StepTruthful /\ BusyExecutes
  BY DEF Init, StepTruthful, BusyExecutes, NoStep, Downloading
<1> QED
  BY <1>1, <1>2 DEF Truth

(* The environment makes no row and no running handler false.              *)
LEMMA EnvironmentTruth ==
  ASSUME TypeInv, Truth, UserMidCycle = FALSE, Environment
  PROVE  Truth'
<1> USE DEF TypeInv, TypeOK, Truth, ArchiveTruthful
<1>1. ASSUME NEW p \in Paths, UserWrite(p) \/ UserDelete(p)
      PROVE Truth'
  <2>1. Quiet /\ UNCHANGED <<copies, saved, server, state, cycle>>
    BY <1>1 DEF UserWrite, UserDelete, UserTurn
  <2>2. step.at = "none" /\ UNCHANGED <<step, log, archive, saved>>
    BY <2>1 DEF Quiet, BusyExecutes, server, state, cycle
  <2>3. LogKept
    BY <2>2, LogUnchanged
  <2> QED
    BY <2>2, <2>3, ArchiveStays, SavedStays, NothingInProgress
<1>2. ASSUME NEW p \in Paths, RemotePut(p) \/ RemoteDelete(p)
      PROVE Truth'
  <2>1. FreshContent \in Nat
    BY DEF BookkeepingOK, Counters, FreshContent
  <2>2. PICK c \in Nat : log' = Append(log, Entry(p, c, FALSE))
    BY <1>2, <2>1 DEF RemotePut, RemoteDelete, Absent
  <2>3. UNCHANGED <<disk, pruned, state, cycle, wanted>>
    BY <1>2 DEF RemotePut, RemoteDelete, RemoteTurn
  <2>4. LogKept
    BY <2>2, <2>3, LogGrows
  <2> QED
    BY <2>3, <2>4, ArchiveStays, SavedStays, StepStays DEF disk, state, cycle
<1>3. ASSUME NEW i \in DOMAIN log, PruneRevision(i)
      PROVE Truth'
  <2>1. UNCHANGED <<disk, log, state, cycle, wanted>>
    BY <1>3 DEF PruneRevision
  <2>2. LogKept
    BY <2>1, LogUnchanged
  <2> QED
    BY <2>1, <2>2, ArchiveStays, SavedStays, StepStays DEF disk, state, cycle
<1> QED
  BY <1>1, <1>2, <1>3 DEF Environment

(* When plans are handed over, no handler is in progress yet.              *)
LEMMA ExecuteKeepsQuiet ==
  ASSUME StepOK, BusyExecutes, pc # "executing",
         NEW plans, NEW to, NEW first, NEW rows, Execute(plans, to, first, rows)
  PROVE  step'.at = "none"
BY DEF Execute, Abandon, Leave, NoStep, BusyExecutes

(* Everything before the first handler keeps the archive truthful; the     *)
(* rows Bootstrap prefills are true.                                       *)
LEMMA PlanningTruth ==
  ASSUME TypeInv, Truth, Walk \/ Poll \/ Bootstrap \/ PollFails \/ PollCursorGone
  PROVE  Truth'
<1> USE DEF TypeInv, TypeOK, Truth, ArchiveTruthful
<1>1. pc # "executing" /\ UNCHANGED <<saved, log>>
  BY DEF Walk, Poll, Bootstrap, PollFails, PollCursorGone, Quiet, disk, server
<1>2. LogKept
  BY <1>1, LogUnchanged
<1>3. RowsTruthful(saved.archive)'
  BY <1>1, <1>2, SavedStays
<1>4. step.at = "none"
  BY <1>1 DEF BusyExecutes
<1>5. CASE Walk
  <2>1. step'.at = "none" /\ (UNCHANGED archive \/ archive' = [p \in Paths |-> NoRow])
    BY <1>4, <1>5 DEF Walk
  <2> QED
    BY <1>2, <1>3, <2>1, ArchiveStays, ArchiveCleared, NothingInProgress
<1>6. CASE PollCursorGone
  <2>1. step'.at = "none" /\ archive' = [p \in Paths |-> NoRow]
    BY <1>4, <1>6 DEF PollCursorGone
  <2> QED
    BY <1>3, <2>1, ArchiveCleared, NothingInProgress
<1>7. CASE PollFails
  <2>1. step'.at = "none" /\ UNCHANGED archive
    BY <1>7 DEF PollFails, Abandon, Leave, NoStep, state
  <2> QED
    BY <1>2, <1>3, <2>1, ArchiveStays, NothingInProgress
<1>8. CASE Poll
  <2>1. UNCHANGED archive
    BY <1>8 DEF Poll, state
  <2>2. step'.at = "none"
    BY <1>1, <1>8, ExecuteKeepsQuiet DEF Poll
  <2> QED
    BY <1>2, <1>3, <2>1, <2>2, ArchiveStays, NothingInProgress
<1>9. CASE Bootstrap
  <2>1. step'.at = "none"
    BY <1>1, <1>9, ExecuteKeepsQuiet DEF Bootstrap
  <2> DEFINE identical(p) == scan[p] # Absent /\ scan[p] = TipContent(p)
             row(p) == IF identical(p) THEN Row(scan[p], Tip(p), Tip(p)) ELSE NoRow
  <2>2. archive' = [p \in Paths |-> row(p)]
    BY <1>9 DEF Bootstrap
  <2>3. ASSUME NEW p \in Paths, row(p) # NoRow
        PROVE  Holds(p, row(p).cv, row(p).hash)
    BY <2>3, TipHolds DEF Row
  <2>4. RowsTruthful(archive)'
    <3> HIDE DEF row
    <3>1. ASSUME NEW p \in Paths, archive'[p] # NoRow
          PROVE  Holds(p, archive[p].cv, archive[p].hash)'
      <4>1. archive'[p] = row(p)
        BY <2>2
      <4>2. Holds(p, row(p).cv, row(p).hash)
        BY <2>3, <3>1, <4>1
      <4> QED
        BY <1>1, <4>1, <4>2 DEF Holds, Entries, ContentOf
    <3> QED
      BY <3>1 DEF RowsTruthful, Holds
  <2> QED
    BY <1>3, <2>1, <2>4, NothingInProgress
<1> QED
  BY <1>5, <1>6, <1>7, <1>8, <1>9

(* An upload in progress: the content sent is the one the new entry has,   *)
(* and it is still in the file.                                            *)
LEMMA UploadTruth ==
  ASSUME ServerOK, NEW p \in Paths, NEW n \in Nat,
         n \in DOMAIN log', log'[n] = Entry(p, local[p], TRUE),
         step'.at = "record", step'.path = p, step'.cv = n,
         UNCHANGED local, pc' = "executing", n # NoVersion
  PROVE  StepTruthful' /\ BusyExecutes'
BY DEF StepTruthful, BusyExecutes, Holds, Entries, ContentOf, Entry, Downloading

(* A download in progress has the content of the version it will record.   *)
LEMMA DownloadTruth ==
  ASSUME TypeInv, NEW p \in Paths, NEW where \in Downloading, NEW pre,
         Fetched(p, plan[p].rev).got # Absent, UNCHANGED <<log, local>>,
         step' = FetchStep(p, where, pre), pc' = "executing"
  PROVE  StepTruthful' /\ BusyExecutes'
<1> DEFINE f == Fetched(p, plan[p].rev)
<1>1. Holds(p, f.cv, f.got)
  BY FetchedTyped DEF TypeInv, TypeOK
<1>2. step'.path = p /\ step'.cv = f.cv /\ step'.got = f.got /\ step'.at = where
  BY DEF FetchStep
<1> HIDE DEF f
<1>3. Holds(step.path, step.cv, step.got)'
  BY <1>1, <1>2 DEF Holds, Entries, ContentOf
<1> QED
  BY <1>2, <1>3 DEF StepTruthful, BusyExecutes, Downloading

(* Handlers that change nothing on the server keep the archive truthful.   *)
LEMMA LocalHandlersTruth ==
  ASSUME TypeInv, Truth,
         \/ \E p \in Paths : PullFetch(p) \/ DeleteLocal(p) \/ ConflictFetch(p)
         \/ Record \/ PullCheck \/ PullRename \/ ConflictCompare
  PROVE  Truth'
<1> USE DEF TypeInv, TypeOK, Truth, ArchiveTruthful
<1>1. /\ pc = "executing" /\ pc' = "executing"
      /\ UNCHANGED <<saved, log>>
  BY DEF PullFetch, DeleteLocal, ConflictFetch, Record, PullCheck, PullRename,
         ConflictCompare, Begins, Turn, At, UnchangedCycle, disk, server
<1>2. LogKept
  BY <1>1, LogUnchanged
<1>3. RowsTruthful(saved.archive)'
  BY <1>1, <1>2, SavedStays
<1>a. ASSUME NEW p, Done(p) \/ Fail(p) PROVE StepTruthful' /\ BusyExecutes'
  BY <1>a, NothingInProgress DEF Done, Fail, NoStep
<1>b. ASSUME NEW p, step' = [NoStep EXCEPT !.at = "conflict_push", !.path = p]
      PROVE StepTruthful' /\ BusyExecutes'
  BY <1>1, <1>b DEF NoStep, StepTruthful, BusyExecutes, Downloading
<1>4. ASSUME NEW p \in Paths, PullFetch(p) PROVE Truth'
  <2> DEFINE pre == IF HasRow(p) THEN local[p] ELSE Absent
  <2>1. UNCHANGED <<archive, local>>
    BY <1>4 DEF PullFetch, disk, state
  <2>2. \/ Done(p)
        \/ /\ Fetched(p, plan[p].rev).got # Absent
           /\ step' = FetchStep(p, "pull_check", pre)
    BY <1>4 DEF PullFetch, Continue
  <2>3. StepTruthful' /\ BusyExecutes'
    <3>1. "pull_check" \in Downloading
      BY DEF Downloading
    <3> HIDE DEF pre
    <3> QED
      BY <1>1, <1>a, <2>1, <2>2, <3>1, DownloadTruth
  <2> QED
    BY <1>2, <1>3, <2>1, <2>3, ArchiveStays
<1>5. ASSUME NEW p \in Paths, DeleteLocal(p) PROVE Truth'
  <2>1. archive' = [archive EXCEPT ![p] = NoRow] /\ Done(p)
    BY <1>5 DEF DeleteLocal
  <2> QED
    BY <1>2, <1>3, <1>a, <2>1, RowRemoved
<1>6. ASSUME NEW p \in Paths, ConflictFetch(p) PROVE Truth'
  <2>1. UNCHANGED <<archive, local>>
    BY <1>6 DEF ConflictFetch, disk, state
  <2>2. \/ step' = [NoStep EXCEPT !.at = "conflict_push", !.path = p]
        \/ /\ Fetched(p, plan[p].rev).got # Absent
           /\ step' = FetchStep(p, "conflict_compare", Absent)
    BY <1>6 DEF ConflictFetch, Continue
  <2>3. StepTruthful' /\ BusyExecutes'
    <3>1. "conflict_compare" \in Downloading
      BY DEF Downloading
    <3> QED
      BY <1>1, <1>b, <2>1, <2>2, <3>1, DownloadTruth
  <2> QED
    BY <1>2, <1>3, <2>1, <2>3, ArchiveStays
<1>7. CASE Record
  <2>1. step.path \in Paths /\ Holds(step.path, step.cv, local[step.path])
    BY <1>7, StepPathTyped DEF Record, At, StepTruthful
  <2>2. \/ /\ archive' = [archive EXCEPT ![step.path] =
                            Row(local[step.path], step.cv, step.rev)]
           /\ Done(step.path)
        \/ UNCHANGED archive /\ Fail(step.path)
    BY <1>7 DEF Record
  <2>3. RowsTruthful(archive)'
    BY <1>2, <2>1, <2>2, TrueRowWritten, ArchiveStays
  <2> QED
    BY <1>3, <1>a, <2>2, <2>3
<1>8. CASE PullCheck
  <2>1. /\ UNCHANGED <<archive, local>> /\ step.at \in Downloading
        /\ Done(step.path) \/ step' = [step EXCEPT !.at = "pull_rename"]
    BY <1>8 DEF PullCheck, At, Continue, disk, state, Downloading
  <2>2. ASSUME step' = [step EXCEPT !.at = "pull_rename"]
        PROVE  StepTruthful' /\ BusyExecutes'
    <3>1. /\ step'.at = "pull_rename" /\ step'.path = step.path
          /\ step'.cv = step.cv /\ step'.got = step.got
      BY <2>2 DEF StepOK, Steps
    <3>2. Holds(step.path, step.cv, step.got)'
      BY <1>1, <2>1, <3>1 DEF StepTruthful, Holds, Entries, ContentOf
    <3> QED
      BY <1>1, <3>1, <3>2 DEF StepTruthful, BusyExecutes
  <2> QED
    BY <1>2, <1>3, <1>a, <2>1, <2>2, ArchiveStays
<1>9. CASE PullRename
  <2>1. /\ UNCHANGED archive /\ step.at \in Downloading
        /\ local' = [local EXCEPT ![step.path] = step.got]
        /\ step' = [step EXCEPT !.at = "record"]
    BY <1>9 DEF PullRename, At, Continue, state, Downloading
  <2>2. /\ step'.at = "record" /\ step'.path = step.path
        /\ step'.cv = step.cv /\ local'[step.path] = step.got
    BY <1>9, <2>1 DEF StepOK, Steps, DiskOK, PullRename, At
  <2>3. Holds(step.path, step.cv, local[step.path])'
    BY <1>1, <2>1, <2>2 DEF StepTruthful, Holds, Entries, ContentOf
  <2>4. StepTruthful' /\ BusyExecutes'
    BY <1>1, <2>2, <2>3 DEF StepTruthful, BusyExecutes, Downloading
  <2> QED
    BY <1>2, <1>3, <2>1, <2>4, ArchiveStays
<1>10. CASE ConflictCompare
  <2>1. step.path \in Paths /\ Holds(step.path, step.cv, step.got)
    BY <1>10, StepPathTyped DEF ConflictCompare, At, StepTruthful, Downloading
  <2>2. \/ /\ local[step.path] = step.got
           /\ archive' = [archive EXCEPT ![step.path] =
                            Row(local[step.path], step.cv, step.rev)]
           /\ Done(step.path)
        \/ /\ UNCHANGED archive
           /\ step' = [NoStep EXCEPT !.at = "conflict_push", !.path = step.path]
    BY <1>10 DEF ConflictCompare, Continue
  <2>3. RowsTruthful(archive)'
    BY <1>2, <2>1, <2>2, TrueRowWritten, ArchiveStays
  <2> QED
    BY <1>3, <1>a, <1>b, <2>2, <2>3
<1> QED
  BY <1>4, <1>5, <1>6, <1>7, <1>8, <1>9, <1>10

(* So do those that upload or delete there, replies lost or not.           *)
LEMMA RemoteHandlersTruth ==
  ASSUME TypeInv, Truth,
         \/ \E p \in Paths : \/ PushUpload(p) \/ PushReplyLost(p)
                             \/ DeleteRemote(p) \/ DeleteReplyLost(p)
         \/ ConflictPush \/ ConflictReplyLost \/ RequestFails
  PROVE  Truth'
<1> USE DEF TypeInv, TypeOK, Truth, ArchiveTruthful
<1>1. pc = "executing" /\ pc' = "executing" /\ UNCHANGED <<local, saved, pruned>>
  BY DEF PushUpload, PushReplyLost, DeleteRemote, DeleteReplyLost, ConflictPush,
         ConflictReplyLost, RequestFails, Begins, Turn, At, UnchangedCycle, disk,
         server
<1>a. ASSUME NEW p, Done(p) \/ Fail(p) PROVE StepTruthful' /\ BusyExecutes'
  BY <1>a, NothingInProgress DEF Done, Fail, NoStep
<1>b. ASSUME UNCHANGED log PROVE LogKept
  BY <1>b, LogUnchanged
<1>c. ASSUME NEW p \in Paths, NEW c \in Nat, log' = Append(log, Entry(p, c, TRUE))
      PROVE  /\ LogKept /\ Len(log) + 1 \in DOMAIN log' /\ Len(log) + 1 \in Nat
             /\ log'[Len(log) + 1] = Entry(p, c, TRUE) /\ Len(log) + 1 # NoVersion
  <2>1. Len(log) + 1 \in Nat /\ Len(log) + 1 # NoVersion
    BY DEF ServerOK, NoVersion
  <2> QED
    BY <1>1, <1>c, <2>1, LogGrows
<1>d. ASSUME NEW p \in Paths PROVE local[p] \in Nat /\ Absent \in Nat
  BY DEF DiskOK, Absent
<1>e. ASSUME NEW p \in Paths, log' = Append(log, Entry(p, local[p], TRUE)),
             Continue(RecordStep(p)), UNCHANGED archive
      PROVE  Truth'
  <2>1. StepTruthful' /\ BusyExecutes'
    BY <1>1, <1>c, <1>d, <1>e, UploadStepTyped, UploadTruth DEF Continue
  <2> QED
    BY <1>1, <1>c, <1>d, <1>e, <2>1, ArchiveStays, SavedStays
<1>f. ASSUME NEW p, LogKept, Done(p) \/ Fail(p),
             UNCHANGED archive \/ \E q : archive' = [archive EXCEPT ![q] = NoRow]
      PROVE  Truth'
  BY <1>1, <1>a, <1>f, ArchiveStays, RowRemoved, SavedStays
<1>2. ASSUME NEW p \in Paths, PushUpload(p) PROVE Truth'
  <2>1. UNCHANGED archive
    BY <1>2 DEF PushUpload
  <2>2. \/ /\ log' = Append(log, Entry(p, local[p], TRUE))
           /\ Continue(RecordStep(p))
        \/ UNCHANGED log /\ Fail(p)
    BY <1>2 DEF PushUpload
  <2> QED
    BY <1>b, <1>e, <1>f, <2>1, <2>2
<1>3. ASSUME NEW p \in Paths, PushReplyLost(p) \/ DeleteReplyLost(p) PROVE Truth'
  <2>1. UNCHANGED archive /\ Fail(p)
    BY <1>3 DEF PushReplyLost, DeleteReplyLost, state
  <2>2. LogKept
    BY <1>3, <1>c, <1>d DEF PushReplyLost, DeleteReplyLost
  <2> QED
    BY <1>f, <2>1, <2>2
<1>4. ASSUME NEW p \in Paths, DeleteRemote(p) PROVE Truth'
  <2>1. \/ /\ log' = Append(log, Entry(p, Absent, TRUE)) /\ Done(p)
           /\ archive' = [archive EXCEPT ![p] = NoRow]
        \/ UNCHANGED <<log, archive>> /\ Fail(p)
    BY <1>4 DEF DeleteRemote
  <2>2. LogKept
    BY <1>b, <1>c, <1>d, <2>1
  <2> QED
    BY <1>f, <2>1, <2>2
<1>5. CASE ConflictPush
  <2>1. step.path \in Paths
    BY <1>5, StepPathTyped DEF ConflictPush
  <2>2. \/ /\ archive' = [archive EXCEPT ![step.path] = NoRow]
           /\ Done(step.path) /\ UNCHANGED log
        \/ /\ log' = Append(log, Entry(step.path, local[step.path], TRUE))
           /\ Continue(RecordStep(step.path)) /\ UNCHANGED archive
    BY <1>5 DEF ConflictPush
  <2> QED
    BY <1>b, <1>e, <1>f, <2>1, <2>2
<1>6. CASE ConflictReplyLost
  <2> DEFINE p == step.path
             once == Append(log, Entry(p, local[p], TRUE))
             twice == Append(once, Entry(p, local[p], TRUE))
  <2>1. p \in Paths /\ UNCHANGED archive
    BY <1>6, StepPathTyped DEF ConflictReplyLost
  <2>2. CASE log' = once /\ Fail(p)
    <3>1. LogKept
      BY <1>c, <1>d, <2>1, <2>2
    <3> QED
      BY <1>f, <2>1, <2>2, <3>1
  <2>3. CASE log' = twice /\ Continue([RecordStep(p) EXCEPT !.cv = Len(log')])
    <3>1. PICK e \in LogEntry : e = Entry(p, local[p], TRUE)
      BY <1>d, <2>1 DEF Entry, LogEntry
    <3>2. twice = Append(Append(log, e), e)
      BY <3>1
    <3> HIDE DEF twice
    <3>3. /\ twice \in Seq(LogEntry) /\ Len(log) \in Nat
          /\ Len(twice) = Len(log) + 2 /\ twice[Len(log) + 2] = e
          /\ \A i \in 1..Len(log) : twice[i] = log[i]
      BY <3>2, AppendedTwice DEF ServerOK
    <3>4. /\ LogKept /\ Len(log') \in DOMAIN log' /\ Len(log') \in Nat
          /\ Len(log') # NoVersion /\ log'[Len(log')] = e
      <4>1. log' = twice
        BY <2>3
      <4>2. DOMAIN log = 1..Len(log) /\ DOMAIN log' = 1..(Len(log) + 2)
        BY <3>3, <4>1 DEF ServerOK
      <4>3. Len(log') = Len(log) + 2 /\ log'[Len(log) + 2] = e
        BY <3>3, <4>1
      <4>4. LogKept
        BY <3>3, <4>1, <4>2 DEF LogKept
      <4> QED
        BY <3>3, <4>2, <4>3, <4>4 DEF NoVersion
    <3>5. step'.at = "record" /\ step'.path = p /\ step'.cv = Len(log')
      BY <2>1, <2>3, <3>4, RecordStepTyped DEF Continue
    <3>6. StepTruthful' /\ BusyExecutes'
      BY <1>1, <2>1, <3>1, <3>4, <3>5, UploadTruth
    <3> QED
      BY <1>1, <2>1, <3>4, <3>6, ArchiveStays, SavedStays
  <2> QED
    BY <1>6, <2>2, <2>3 DEF ConflictReplyLost
<1>7. CASE RequestFails
  <2>1. UNCHANGED <<log, archive>> /\ \E p : Fail(p)
    BY <1>7 DEF RequestFails, server, state
  <2> QED
    BY <1>b, <1>f, <2>1
<1> QED
  BY <1>2, <1>3, <1>4, <1>5, <1>6, <1>7

(* So do the end of a cycle, a failed save, and a crash.                   *)
LEMMA EndingTruth ==
  ASSUME TypeInv, Truth, Finish \/ SaveFails \/ Crash
  PROVE  Truth'
<1> USE DEF TypeInv, TypeOK, Truth, ArchiveTruthful
<1>1. UNCHANGED log /\ step'.at = "none"
  BY DEF Finish, SaveFails, Crash, Reload, Abandon, Leave, NoStep, server
<1>2. LogKept
  BY <1>1, LogUnchanged
<1>3. StepTruthful' /\ BusyExecutes'
  BY <1>1, NothingInProgress
<1>4. RowsTruthful(archive)' /\ RowsTruthful(saved.archive)'
  <2>1. CASE Finish
    <3>1. UNCHANGED archive /\ saved'.archive = archive
      BY <2>1 DEF Finish, Memory
    <3> QED
      BY <1>2, <3>1, ArchiveStays DEF RowsTruthful
  <2>2. CASE SaveFails
    <3>1. UNCHANGED <<archive, saved>>
      BY <2>2 DEF SaveFails, disk
    <3> QED
      BY <1>2, <3>1, ArchiveStays, SavedStays
  <2>3. CASE Crash
    <3>1. /\ archive' = saved'.archive
          /\ UNCHANGED saved \/ saved'.archive = [p \in Paths |-> NoRow]
      BY <2>3 DEF Crash, Reload, Empty
    <3>2. RowsTruthful(saved.archive)'
      BY <1>2, <3>1, SavedStays DEF RowsTruthful
    <3> QED
      BY <3>1, <3>2 DEF RowsTruthful
  <2> QED
    BY <2>1, <2>2, <2>3
<1> QED
  BY <1>3, <1>4

(* The archive, and the handler in progress, are always truthful.          *)
THEOREM TruthInvariant ==
  ASSUME UserMidCycle = FALSE
  PROVE  Spec => []Truth
<1>1. TypeInv /\ Truth /\ [Next]_vars => Truth'
  <2> SUFFICES ASSUME TypeInv, Truth, [Next]_vars PROVE Truth'
    OBVIOUS
  <2>1. CASE Next
    BY <2>1, EnvironmentTruth, PlanningTruth, LocalHandlersTruth,
       RemoteHandlersTruth, EndingTruth DEF Next, Cycle, Handlers, Faults
  <2>2. CASE UNCHANGED vars
    <3>1. ServerOK
      BY DEF TypeInv, TypeOK
    <3>2. UNCHANGED <<log, archive, saved, step, local, pc>>
      BY <2>2 DEF vars, disk, server, state, cycle
    <3> QED
      BY <3>1, <3>2, LogUnchanged, ArchiveStays, SavedStays, StepStays
         DEF Truth, ArchiveTruthful
  <2> QED
    BY <2>1, <2>2
<1> QED
  BY InitTruth, TypeInvariant, <1>1, PTL DEF Spec

(* types.FileState: as long as the user keeps still while a cycle runs,    *)
(* every archive row, in memory and in state.db, is a content and the      *)
(* version the server has it under, through lost replies, failed requests, *)
(* failed saves, crashes and other clients' writes at any moment.          *)
THEOREM ArchiveCorrect ==
  ASSUME UserMidCycle = FALSE
  PROVE  Spec => []ArchiveTruthful
<1>1. Truth => ArchiveTruthful
  BY DEF Truth
<1> QED
  BY TruthInvariant, <1>1, PTL

-----------------------------------------------------------------------------
(* What a step does to the server's log. *)

Appends(p, c, own) == log' = Append(log, Entry(p, c, own)) /\ UNCHANGED pruned
AppendsTwice(p, c) ==
  log' = Append(Append(log, Entry(p, c, TRUE)), Entry(p, c, TRUE))

(* A step leaves the log alone, or appends one entry to it, or an upload   *)
(* that is sent again appends two.                                         *)
LEMMA LogChanges ==
  ASSUME TypeInv, [Next]_vars
  PROVE  \/ UNCHANGED log
         \/ \E p \in Paths, c \in Nat, own \in BOOLEAN : Appends(p, c, own)
         \/ \E p \in Paths, c \in Nat : AppendsTwice(p, c)
<1>1. FreshContent \in Nat /\ Absent \in Nat /\ \A p \in Paths : local[p] \in Nat
  BY DEF TypeInv, TypeOK, BookkeepingOK, Counters, FreshContent, DiskOK, Absent
<1>2. CASE Environment
  BY <1>1, <1>2 DEF Environment, UserWrite, UserDelete, UserTurn, RemotePut, RemoteDelete,
                    RemoteTurn, PruneRevision, Appends, server
<1>3. CASE \E p \in Paths : \/ PushUpload(p) \/ PushReplyLost(p)
                            \/ DeleteRemote(p) \/ DeleteReplyLost(p)
  BY <1>1, <1>3 DEF PushUpload, PushReplyLost, DeleteRemote, DeleteReplyLost, Appends
<1>4. CASE ConflictPush \/ ConflictReplyLost
  <2>1. step.path \in Paths
    BY <1>4, StepPathTyped DEF ConflictPush, ConflictReplyLost, TypeInv, TypeOK
  <2> QED
    BY <1>1, <1>4, <2>1 DEF ConflictPush, ConflictReplyLost, Appends, AppendsTwice
<1>5. CASE \/ Walk \/ Poll \/ Bootstrap \/ Finish
           \/ \E p \in Paths : PullFetch(p) \/ DeleteLocal(p) \/ ConflictFetch(p)
           \/ Record \/ PullCheck \/ PullRename \/ ConflictCompare
           \/ RequestFails \/ PollFails \/ PollCursorGone \/ SaveFails \/ Crash
           \/ UNCHANGED vars
  BY <1>5 DEF Walk, Poll, Bootstrap, Finish, PullFetch, DeleteLocal, ConflictFetch,
              Record, PullCheck, PullRename, ConflictCompare, RequestFails, PollFails,
              PollCursorGone, SaveFails, Crash, vars, server
<1> QED
  BY <1>2, <1>3, <1>4, <1>5 DEF Next, Cycle, Handlers, Faults

(* What an upload that is sent again does to the log.                      *)
LEMMA LogGrowsTwice ==
  ASSUME ServerOK, NEW p \in Paths, NEW c \in Nat, AppendsTwice(p, c)
  PROVE  /\ LogKept /\ log' \in Seq(LogEntry) /\ Len(log') = Len(log) + 2
         /\ log'[Len(log) + 2] = Entry(p, c, TRUE)
<1>1. PICK e \in LogEntry : e = Entry(p, c, TRUE)
  BY DEF Entry, LogEntry
<1>2. log' = Append(Append(log, e), e)
  BY <1>1 DEF AppendsTwice
<1>3. /\ log' \in Seq(LogEntry) /\ Len(log') = Len(log) + 2 /\ Len(log) \in Nat
      /\ log'[Len(log) + 2] = e /\ \A i \in 1..Len(log) : log'[i] = log[i]
  BY <1>2, AppendedTwice DEF ServerOK
<1>4. DOMAIN log = 1..Len(log) /\ DOMAIN log' = 1..(Len(log) + 2)
  BY <1>3 DEF ServerOK
<1> QED
  BY <1>1, <1>3, <1>4 DEF LogKept

(* No step takes anything back from the log.                               *)
LEMMA LogAlwaysKept ==
  ASSUME TypeInv, [Next]_vars
  PROVE  LogKept
<1>1. ServerOK
  BY DEF TypeInv, TypeOK
<1> QED
  BY <1>1, LogChanges, LogUnchanged, LogGrows, LogGrowsTwice DEF Appends

-----------------------------------------------------------------------------
(* Where a content is safe from this client. *)

Secured == {Absent} \cup copies \cup {log[i].content : i \in DOMAIN log}

(* What is secured stays so.                                               *)
LEMMA SecuredGrows ==
  ASSUME LogKept, copies \subseteq copies'
  PROVE  Secured \subseteq Secured'
BY DEF LogKept, Secured

(* What a version of a file holds is secured.                              *)
LEMMA VersionSecured ==
  ASSUME ServerOK, NEW p, NEW cv, NEW c, Holds(p, cv, c)
  PROVE  c \in Secured
BY EntryContent DEF Holds, Secured, ContentOf, Entries

(* So is what a truthful row remembers.                                    *)
LEMMA RowSecured ==
  ASSUME ServerOK, RowsTruthful(archive), NEW p \in Paths
  PROVE  archive[p].hash \in Secured
<1>1. CASE archive[p] = NoRow
  BY <1>1 DEF NoRow, Secured
<1>2. CASE archive[p] # NoRow
  BY <1>2, VersionSecured DEF RowsTruthful, Holds
<1> QED
  BY <1>1, <1>2

(* compare.go: a file is pulled over or deleted only if it is absent or is *)
(* what the archive remembers.                                             *)
LEMMA ReplacesTheKnown ==
  ASSUME NEW d, NEW r, NEW e, NEW b \in BOOLEAN,
         \/ IncrementalAction(d, r, e) \in {"pull", "delete_local"}
         \/ FullAction(d, r, b) \in {"pull", "delete_local"}
  PROVE  d \in {Absent, r}
BY DEF IncrementalAction, FullAction, LocalSame, LocalDeleted, LocalChanged, LocalNew

(* The invariant.  NoLocalEditLost is not inductive: the two steps that    *)
(* replace a file do not look at what they replace, so the plan and the    *)
(* download in progress have to be right about it.                         *)
ScanCurrent == pc \in {"polling", "bootstrapping"} => scan = local
PlansSafe == pc = "executing" =>
  \A p \in Paths : plan[p].act \in {"pull", "delete_local"} => local[p] \in Secured
StepSafe == step.at \in {"pull_check", "pull_rename"} => local[step.path] \in Secured
EditInv == NoLocalEditLost /\ ScanCurrent /\ PlansSafe /\ StepSafe

(* NoLocalEditLost in these terms.                                         *)
LEMMA EditsSecured ==
  NoLocalEditLost <=> \A p \in Paths : wanted[p] = local[p] \/ wanted[p] \in Secured
BY DEF NoLocalEditLost, Secured

(* A step that touches no file loses none.                                 *)
LEMMA EditsStay ==
  ASSUME NoLocalEditLost, Secured \subseteq Secured', UNCHANGED <<local, wanted>>
  PROVE  NoLocalEditLost'
<1>1. \A p \in Paths : wanted[p] = local[p] \/ wanted[p] \in Secured
  BY EditsSecured
<1>2. \A p \in Paths : wanted'[p] = local'[p] \/ wanted'[p] \in Secured'
  BY <1>1
<1> QED
  BY <1>2 DEF NoLocalEditLost, Secured

(* Nor does one that replaces a secured content.                           *)
LEMMA SecuredReplaced ==
  ASSUME NoLocalEditLost, TypeOK, Secured \subseteq Secured', UNCHANGED wanted,
         NEW q \in Paths, local[q] \in Secured, NEW c,
         local' = [local EXCEPT ![q] = c]
  PROVE  NoLocalEditLost'
<1>1. \A p \in Paths : wanted[p] = local[p] \/ wanted[p] \in Secured
  BY EditsSecured
<1>2. \A p \in Paths : p # q => local'[p] = local[p]
  BY DEF TypeOK, DiskOK
<1>3. \A p \in Paths : wanted'[p] = local'[p] \/ wanted'[p] \in Secured'
  BY <1>1, <1>2
<1> QED
  BY <1>3 DEF NoLocalEditLost, Secured

-----------------------------------------------------------------------------
(* The steps. *)

(* Outside of the execution there is no plan to be right about.            *)
LEMMA NothingPlanned ==
  ASSUME pc' \notin {"executing", "polling", "bootstrapping"}, step'.at = "none"
  PROVE  ScanCurrent' /\ PlansSafe' /\ StepSafe'
BY DEF ScanCurrent, PlansSafe, StepSafe

(* The user writes when nothing is planned; the others cannot reach the    *)
(* disk.                                                                   *)
LEMMA EnvironmentKeepsEdits ==
  ASSUME TypeInv, BusyExecutes, EditInv, UserMidCycle = FALSE, LogKept, Environment
  PROVE  EditInv'
<1>1. ASSUME NEW p \in Paths, UserWrite(p) \/ UserDelete(p)
      PROVE  EditInv'
  <2>1. Quiet /\ UNCHANGED <<copies, pc, step>>
    BY <1>1 DEF UserWrite, UserDelete, UserTurn, cycle
  <2>2. ScanCurrent' /\ PlansSafe' /\ StepSafe'
    <3>1. step.at = "none"
      BY <2>1 DEF Quiet, BusyExecutes
    <3> QED
      BY <2>1, <3>1, NothingPlanned DEF Quiet
  <2>3. Secured \subseteq Secured'
    BY <2>1, SecuredGrows
  <2>4. PICK c : /\ local' = [local EXCEPT ![p] = c]
                 /\ wanted' = [wanted EXCEPT ![p] = c]
    BY <1>1 DEF UserWrite, UserDelete
  <2>5. \A q \in Paths : wanted'[q] = local'[q] \/ wanted'[q] \in Secured'
    <3>1. local \in [Paths -> Nat] /\ wanted \in [Paths -> Nat]
      BY DEF TypeInv, TypeOK, DiskOK, BookkeepingOK
    <3>2. \A q \in Paths : wanted[q] = local[q] \/ wanted[q] \in Secured
      BY EditsSecured DEF EditInv
    <3> QED
      BY <2>3, <2>4, <3>1, <3>2
  <2>6. NoLocalEditLost'
    BY <2>5 DEF NoLocalEditLost, Secured
  <2> QED
    BY <2>2, <2>6 DEF EditInv
<1>2. CASE UNCHANGED <<disk, cycle, wanted>>
  <2>1. UNCHANGED <<local, copies, wanted, pc, step, plan, scan>>
    BY <1>2 DEF disk, cycle
  <2>2. Secured \subseteq Secured'
    BY <2>1, SecuredGrows
  <2>3. PlansSafe' /\ StepSafe' /\ ScanCurrent'
    BY <2>1, <2>2 DEF EditInv, PlansSafe, StepSafe, ScanCurrent
  <2> QED
    BY <2>1, <2>2, <2>3, EditsStay DEF EditInv
<1> QED
  BY <1>1, <1>2 DEF Environment, RemotePut, RemoteDelete, RemoteTurn, PruneRevision

(* Execution begins with plans that are right about what they replace: the *)
(* walk is still true of the disk, and the rows are of the server.         *)
LEMMA ExecuteSafe ==
  ASSUME StepOK, BusyExecutes, pc # "executing", NEW plans, NEW to, NEW first, NEW rows,
         Execute(plans, to, first, rows), UNCHANGED local,
         \A p \in Paths : plans[p].act \in {"pull", "delete_local"}
                            => local[p] \in Secured'
  PROVE  ScanCurrent' /\ PlansSafe' /\ StepSafe'
<1>1. step'.at = "none"
  BY ExecuteKeepsQuiet
<1>2. CASE TooManyDeletes(plans, rows)
  BY <1>1, <1>2, NothingPlanned DEF Execute, Abandon, Leave
<1>3. CASE ~TooManyDeletes(plans, rows)
  BY <1>1, <1>3 DEF Execute, ScanCurrent, PlansSafe, StepSafe
<1> QED
  BY <1>2, <1>3

(* The steps of a cycle before the first plan write no file; the plans they *)
(* make are right about what they replace.                                 *)
LEMMA PlanningKeepsEdits ==
  ASSUME TypeInv, Truth, EditInv, LogKept,
         Walk \/ Poll \/ Bootstrap \/ PollFails \/ PollCursorGone
  PROVE  EditInv'
<1>1. /\ pc # "executing" /\ step.at = "none"
      /\ UNCHANGED <<local, copies, log, wanted>>
  BY DEF Walk, Poll, Bootstrap, PollFails, PollCursorGone, Quiet, disk, server, Truth,
         BusyExecutes
<1>2. Secured' = Secured /\ StepOK /\ BusyExecutes /\ ServerOK
  BY <1>1 DEF Secured, TypeInv, TypeOK, Truth
<1>3. NoLocalEditLost'
  BY <1>1, <1>2, EditsStay DEF EditInv
<1>4. CASE Walk \/ PollCursorGone
  <2>1. pc' \in {"polling", "bootstrapping"} /\ scan' = local /\ step' = step
    BY <1>4 DEF Walk, PollCursorGone
  <2> QED
    BY <1>1, <1>3, <2>1 DEF EditInv, ScanCurrent, PlansSafe, StepSafe
<1>5. CASE PollFails
  <2>1. pc' = "idle" /\ step'.at = "none"
    BY <1>5 DEF PollFails, Abandon, Leave, NoStep
  <2> QED
    BY <1>3, <2>1, NothingPlanned DEF EditInv
<1>6. CASE Poll
  <2> DEFINE act(p) == IncrementalAction(scan[p], archive[p].hash, EventKind(Event(p)))
             rev(p) == IF EventKind(Event(p)) = "put" THEN Event(p) ELSE NoVersion
             plans == [p \in Paths |-> Plan(act(p), rev(p))]
  <2>1. /\ scan = local
        /\ \E first : Execute(plans, Len(log), first, archive)
    BY <1>6 DEF Poll, EditInv, ScanCurrent
  <2>2. ASSUME NEW p \in Paths, plans[p].act \in {"pull", "delete_local"}
        PROVE  local[p] \in Secured'
    <3>1. act(p) \in {"pull", "delete_local"}
      BY <2>2 DEF Plan
    <3>2. local[p] \in {Absent, archive[p].hash}
      BY <2>1, <3>1, ReplacesTheKnown
    <3> QED
      BY <1>2, <3>2, RowSecured DEF Secured, Truth, ArchiveTruthful
  <2> HIDE DEF plans
  <2> QED
    BY <1>1, <1>2, <1>3, <2>1, <2>2, ExecuteSafe DEF EditInv
<1>7. CASE Bootstrap
  <2> DEFINE identical(p) == scan[p] # Absent /\ scan[p] = TipContent(p)
             rows == [p \in Paths |-> IF identical(p)
                                      THEN Row(scan[p], Tip(p), Tip(p)) ELSE NoRow]
             remote(p) == TipContent(p) # Absent
             act(p) == FullAction(scan[p], rows[p].hash, remote(p))
             rev(p) == IF remote(p) THEN Tip(p) ELSE NoVersion
             plans == [p \in Paths |-> Plan(act(p), rev(p))]
  <2>1. /\ scan = local /\ archive' = rows
        /\ \E first : Execute(plans, Len(log), first, rows)
    BY <1>7 DEF Bootstrap, EditInv, ScanCurrent
  <2>2. ASSUME NEW p \in Paths, plans[p].act \in {"pull", "delete_local"}
        PROVE  local[p] \in Secured'
    <3>1. act(p) \in {"pull", "delete_local"}
      BY <2>2 DEF Plan
    <3>2. remote(p) \in BOOLEAN
      OBVIOUS
    <3>3. local[p] \in {Absent, rows[p].hash}
      BY <2>1, <3>1, <3>2, ReplacesTheKnown
    <3>4. rows[p].hash \in {Absent, TipContent(p)}
      BY DEF Row, NoRow
    <3>5. TipContent(p) \in Secured
      BY <1>2, TipHolds, VersionSecured DEF Secured
    <3> QED
      BY <1>2, <3>3, <3>4, <3>5 DEF Secured
  <2> HIDE DEF plans
  <2> QED
    BY <1>1, <1>2, <1>3, <2>1, <2>2, ExecuteSafe DEF EditInv
<1> QED
  BY <1>4, <1>5, <1>6, <1>7

(* While plans are executed, a file changes only to a secured content, and *)
(* a plan is carried out or stays.                                         *)
LEMMA PlansStaySafe ==
  ASSUME PlansSafe, Secured \subseteq Secured', pc = "executing", UNCHANGED pc,
         \A p \in Paths : plan'[p] \in {plan[p], NoPlan},
         \A p \in Paths : local'[p] = local[p] \/ local'[p] \in Secured'
  PROVE  PlansSafe' /\ ScanCurrent'
BY DEF PlansSafe, ScanCurrent, NoPlan

(* What a handler may do to plans, files and copies.                       *)
LEMMA HandlersPlan ==
  ASSUME TypeInv, Handlers \/ RequestFails \/ ConflictReplyLost
                  \/ \E p \in Paths : PushReplyLost(p) \/ DeleteReplyLost(p)
  PROVE  /\ pc = "executing" /\ UNCHANGED <<pc, wanted>> /\ copies \subseteq copies'
         /\ \A p \in Paths : plan'[p] \in {plan[p], NoPlan}
<1> DEFINE Ends == \E q \in Paths \cup {step.path} : Done(q) \/ Fail(q)
<1>1. Ends \/ UNCHANGED plan
  BY DEF Handlers, PushUpload, PullFetch, DeleteLocal, DeleteRemote, ConflictFetch,
         Record, PullCheck, PullRename, ConflictCompare, ConflictPush, RequestFails,
         ConflictReplyLost, PushReplyLost, DeleteReplyLost, Continue
<1>2. pc = "executing" /\ UNCHANGED <<pc, wanted>>
  BY DEF Handlers, PushUpload, PullFetch, DeleteLocal, DeleteRemote, ConflictFetch,
         Record, PullCheck, PullRename, ConflictCompare, ConflictPush, RequestFails,
         ConflictReplyLost, PushReplyLost, DeleteReplyLost, UnchangedCycle, Begins,
         Turn, At
<1>3. copies \subseteq copies'
  BY DEF Handlers, PushUpload, PullFetch, DeleteLocal, DeleteRemote, ConflictFetch,
         Record, PullCheck, PullRename, ConflictCompare, ConflictPush, RequestFails,
         ConflictReplyLost, PushReplyLost, DeleteReplyLost, disk
<1>4. plan \in [Paths -> [act : Actions, rev : Version]]
  BY DEF TypeInv, TypeOK, PlanOK
<1>5. \A p \in Paths : plan'[p] \in {plan[p], NoPlan}
  BY <1>1, <1>4 DEF Done, Fail
<1> QED
  BY <1>2, <1>3, <1>5

(* Where a handler that goes on stands.                                    *)
LEMMA StepPlaces ==
  /\ NoStep.at = "none"
  /\ \A q : /\ RecordStep(q).at = "record"
           /\ [NoStep EXCEPT !.at = "conflict_push", !.path = q].at = "conflict_push"
           /\ FetchStep(q, "conflict_compare", Absent).at = "conflict_compare"
  /\ \A q, v : [RecordStep(q) EXCEPT !.cv = v].at = "record"
BY DEF NoStep, RecordStep, FetchStep

(* Neither of the two handlers that replace a file replaces an edit.       *)
LEMMA HandlersKeepEdits ==
  ASSUME TypeInv, Truth, EditInv, LogKept,
         Handlers \/ RequestFails \/ ConflictReplyLost
           \/ \E p \in Paths : PushReplyLost(p) \/ DeleteReplyLost(p)
  PROVE  EditInv'
<1> USE DEF EditInv
<1>1. /\ pc = "executing" /\ UNCHANGED <<pc, wanted>> /\ copies \subseteq copies'
      /\ \A p \in Paths : plan'[p] \in {plan[p], NoPlan}
  BY HandlersPlan
<1>2. Secured \subseteq Secured' /\ ServerOK /\ TypeOK
  BY <1>1, SecuredGrows DEF TypeInv, TypeOK
<1>3. CASE UNCHANGED local
  <2>1. NoLocalEditLost' /\ PlansSafe' /\ ScanCurrent'
    BY <1>1, <1>2, <1>3, EditsStay, PlansStaySafe
  <2>2. StepSafe'
    <3>1. CASE step'.at \notin {"pull_check", "pull_rename"}
      BY <3>1 DEF StepSafe
    <3>2. ASSUME NEW p \in Paths, PullFetch(p), step'.at # "none"
          PROVE  StepSafe'
      <4>1. plan[p].act = "pull" /\ step'.path = p
        BY <3>2 DEF PullFetch, Begins, Done, Continue, FetchStep, NoStep
      <4> QED
        BY <1>1, <1>2, <1>3, <4>1 DEF PlansSafe, StepSafe
    <3>3. CASE PullCheck
      <4>1. step.at = "pull_check"
        BY <3>3 DEF PullCheck, At
      <4>2. step'.at = "none" \/ step'.path = step.path
        BY <3>3 DEF PullCheck, Done, Continue, NoStep, TypeOK, TypeInv, StepOK, Steps
      <4> QED
        BY <1>2, <1>3, <4>1, <4>2 DEF StepSafe
    <3>4. CASE Record \/ RequestFails \/ \E p \in Paths : \/ DeleteLocal(p) \/ DeleteRemote(p)
                                                        \/ DeleteReplyLost(p)
                                                        \/ PushReplyLost(p)
      <4>1. step' = NoStep
        BY <3>4 DEF Record, RequestFails, DeleteLocal, DeleteRemote, DeleteReplyLost,
                    PushReplyLost, Done, Fail
      <4> QED
        BY <3>1, <4>1 DEF NoStep
    <3>5. CASE ConflictPush \/ ConflictCompare \/ \E p \in Paths : PushUpload(p)
      <4>1. step' = NoStep \/ \E q : \/ step' = RecordStep(q)
                                    \/ step' = [NoStep EXCEPT !.at = "conflict_push", !.path = q]
        BY <3>5 DEF ConflictPush, ConflictCompare, PushUpload, Done, Fail, Continue
      <4> QED
        BY <3>1, <4>1, StepPlaces
    <3>6. CASE ConflictReplyLost
      <4>1. step' = NoStep \/ \E q, v : step' = [RecordStep(q) EXCEPT !.cv = v]
        BY <3>6 DEF ConflictReplyLost, Fail, Continue
      <4> QED
        BY <3>1, <4>1, StepPlaces
    <3>7. CASE \E p \in Paths : ConflictFetch(p)
      <4>1. \E q : \/ step' = [NoStep EXCEPT !.at = "conflict_push", !.path = q]
                  \/ step' = FetchStep(q, "conflict_compare", Absent)
        BY <3>7 DEF ConflictFetch, Continue
      <4> QED
        BY <3>1, <4>1, StepPlaces
    <3>8. CASE PullRename
      <4>1. step' = [step EXCEPT !.at = "record"]
        BY <3>8 DEF PullRename, Continue
      <4> QED
        BY <3>1, <4>1 DEF TypeInv, TypeOK, StepOK, Steps
    <3> QED
      BY <3>1, <3>2, <3>3, <3>4, <3>5, <3>6, <3>7, <3>8 DEF Handlers
  <2> QED
    BY <2>1, <2>2
<1>4. ASSUME NEW p \in Paths, DeleteLocal(p)
      PROVE  EditInv'
  <2>1. /\ local' = [local EXCEPT ![p] = Absent] /\ step' = NoStep
        /\ plan[p].act = "delete_local"
    BY <1>4 DEF DeleteLocal, Done, Begins
  <2>2. local[p] \in Secured
    BY <1>1, <2>1 DEF PlansSafe
  <2>3. NoLocalEditLost'
    BY <1>1, <1>2, <2>1, <2>2, SecuredReplaced
  <2>4. \A q \in Paths : local'[q] = local[q] \/ local'[q] \in Secured'
    BY <2>1 DEF TypeInv, TypeOK, DiskOK, Secured
  <2> QED
    BY <1>1, <1>2, <2>1, <2>3, <2>4, PlansStaySafe DEF StepSafe, NoStep
<1>5. CASE PullRename
  <2>1. /\ local' = [local EXCEPT ![step.path] = step.got]
        /\ step.at = "pull_rename" /\ step' = [step EXCEPT !.at = "record"]
    BY <1>5 DEF PullRename, At, Continue
  <2>2. step.path \in Paths /\ step'.at = "record"
    BY <2>1 DEF TypeInv, TypeOK, StepOK, Steps
  <2>3. local[step.path] \in Secured /\ step.got \in Secured
    BY <1>2, <2>1, VersionSecured DEF StepSafe, Truth, StepTruthful, Downloading
  <2>4. NoLocalEditLost'
    BY <1>1, <1>2, <2>1, <2>2, <2>3, SecuredReplaced
  <2>5. \A q \in Paths : local'[q] = local[q] \/ local'[q] \in Secured'
    BY <1>2, <2>1, <2>3 DEF TypeInv, TypeOK, DiskOK
  <2> QED
    BY <1>1, <1>2, <2>2, <2>4, <2>5, PlansStaySafe DEF StepSafe
<1> QED
  <2>1. UNCHANGED local \/ PullRename \/ \E p \in Paths : DeleteLocal(p)
    BY DEF Handlers, PushUpload, PullFetch, DeleteRemote, ConflictFetch, Record,
           PullCheck, ConflictCompare, ConflictPush, RequestFails, ConflictReplyLost,
           PushReplyLost, DeleteReplyLost, disk
  <2> QED
    BY <1>3, <1>4, <1>5, <2>1

(* The end of a cycle and a crash leave the disk alone.                    *)
LEMMA EndingKeepsEdits ==
  ASSUME TypeInv, EditInv, LogKept, Finish \/ SaveFails \/ Crash
  PROVE  EditInv'
<1>1. UNCHANGED <<local, copies, wanted>> /\ pc' \in {"idle", "starting"} /\ step' = NoStep
  BY DEF Finish, SaveFails, Crash, Reload, Abandon, Leave, disk
<1>2. Secured \subseteq Secured'
  BY <1>1, SecuredGrows
<1>3. NoLocalEditLost'
  BY <1>1, <1>2, EditsStay DEF EditInv
<1> QED
  BY <1>1, <1>3, NothingPlanned DEF EditInv, NoStep

(* No step takes an edit away, nor makes a plan that would.                *)
THEOREM EditInvariant ==
  ASSUME UserMidCycle = FALSE
  PROVE  Spec => []EditInv
<1>1. Init => EditInv
  BY DEF Init, EditInv, NoLocalEditLost, ScanCurrent, PlansSafe, StepSafe, NoStep
<1>2. TypeInv /\ Truth /\ EditInv /\ [Next]_vars => EditInv'
  <2> SUFFICES ASSUME TypeInv, Truth, EditInv, [Next]_vars PROVE EditInv'
    OBVIOUS
  <2>1. LogKept /\ BusyExecutes
    BY LogAlwaysKept DEF Truth
  <2>2. CASE UNCHANGED vars
    <3>1. UNCHANGED <<local, copies, log, wanted, pc, step, plan, scan>>
      BY <2>2 DEF vars, disk, server, cycle
    <3> QED
      BY <3>1 DEF EditInv, NoLocalEditLost, ScanCurrent, PlansSafe, StepSafe, Secured
  <2> QED
    BY <2>1, <2>2, EnvironmentKeepsEdits, PlanningKeepsEdits, HandlersKeepEdits,
       EndingKeepsEdits DEF Next, Cycle, Faults
<1> QED
  BY <1>1, <1>2, TypeInvariant, TruthInvariant, PTL DEF Spec

(* runner.go, executor*.go: as long as the user keeps still while a cycle  *)
(* runs, what the user last wrote to a file is in the file, on the server  *)
(* or in a conflict copy, whatever other clients write meanwhile, whichever *)
(* requests, replies and saves are lost, and wherever the process crashes. *)
THEOREM EditsKept ==
  ASSUME UserMidCycle = FALSE
  PROVE  Spec => []NoLocalEditLost
<1>1. EditInv => NoLocalEditLost
  BY DEF EditInv
<1> QED
  BY EditInvariant, <1>1, PTL
=============================================================================
