-------------------------- MODULE ChangesSeenProofs --------------------------
(***************************************************************************)
(* SyncCycle misses no change another client makes between two cycles, as  *)
(* long as user and other clients keep still while a cycle runs; and with  *)
(* other clients writing at any moment, it overwrites nothing unseen but   *)
(* what arrived after the cycle's poll, by an upload or a delete that has  *)
(* no precondition: for any paths and bounds, with crashes, expired        *)
(* cursors, failing requests and failing saves.                            *)
(***************************************************************************)
EXTENDS SyncCycleProofs

-----------------------------------------------------------------------------
(* The current version of a path. *)

(* The greatest of some log positions is no other.                         *)
LEMMA LatestIs ==
  ASSUME NEW n \in Nat, NEW S \in SUBSET (1..n), NEW t \in S, \A j \in S : j <= t
  PROVE  Latest(S) = t
<1>1. Latest(S) \in S /\ \A j \in S : j <= Latest(S)
  BY LatestMember
<1>2. t \in 1..n /\ Latest(S) \in 1..n /\ t <= Latest(S) /\ Latest(S) <= t
  BY <1>1
<1> QED
  BY <1>2

(* No entry of a path is newer than its current version.                   *)
LEMMA TipIsLatest ==
  ASSUME ServerOK, NEW p
  PROVE  /\ Tip(p) \in Nat
         /\ Tip(p) # NoVersion => Tip(p) \in Entries(p)
         /\ \A i \in Entries(p) : i <= Tip(p) /\ Tip(p) # NoVersion
<1>1. Entries(p) \in SUBSET (DOMAIN log) /\ DOMAIN log = 1..Len(log) /\ Len(log) \in Nat
  BY DEF ServerOK, Entries
<1>2. Tip(p) \in Nat /\ (Tip(p) # NoVersion => Tip(p) \in Entries(p))
  BY <1>1, LatestOfLog DEF Tip
<1>3. ASSUME NEW i \in Entries(p)
      PROVE  i <= Tip(p) /\ Tip(p) # NoVersion
  <2>1. Tip(p) \in Entries(p) /\ i <= Tip(p)
    BY <1>1, LatestMember DEF Tip
  <2> QED
    BY <1>1, <2>1 DEF NoVersion
<1> QED
  BY <1>2, <1>3

(* The current version of p is another client's, and holds a file.         *)
Foreign(p) == Tip(p) # NoVersion /\ ~log[Tip(p)].own /\ TipContent(p) # Absent

(* A step after which p has the current version it had before.             *)
Steady(p) == /\ UNCHANGED <<Tip(p), TipContent(p)>>
             /\ Foreign(p)' <=> Foreign(p)

(* A path nothing was appended for is steady.                              *)
LEMMA SteadyPath ==
  ASSUME ServerOK, LogKept, NEW p, UNCHANGED Entries(p)
  PROVE  Steady(p)
<1>1. UNCHANGED Tip(p)
  BY DEF Tip
<1>2. Tip(p) # NoVersion => log'[Tip(p)] = log[Tip(p)]
  BY TipIsLatest DEF LogKept, Entries
<1>3. UNCHANGED TipContent(p)
  BY <1>1, <1>2 DEF TipContent, ContentOf
<1> QED
  BY <1>1, <1>2, <1>3 DEF Steady, Foreign

(* The log grew by entries that all say the same.                          *)
Grows(p, c, own) ==
  /\ LogKept /\ Len(log') > Len(log)
  /\ \A i \in DOMAIN log' : i > Len(log) => log'[i] = Entry(p, c, own)

(* An append is such a growth.                                             *)
LEMMA AppendGrows ==
  ASSUME ServerOK, NEW p \in Paths, NEW c \in Nat, NEW own \in BOOLEAN,
         log' = Append(log, Entry(p, c, own))
  PROVE  Grows(p, c, own) /\ Len(log') = Len(log) + 1
<1>1. Entry(p, c, own) \in LogEntry
  BY DEF Entry, LogEntry
<1> HIDE DEF Entry
<1>2. log' \in Seq(LogEntry) /\ Len(log') = Len(log) + 1 /\ Len(log) \in Nat
  BY <1>1 DEF ServerOK
<1>3. DOMAIN log = 1..Len(log) /\ DOMAIN log' = 1..(Len(log) + 1)
  BY <1>2 DEF ServerOK
<1>4. ASSUME NEW i \in DOMAIN log
      PROVE i \in DOMAIN log' /\ log'[i] = log[i]
  BY <1>1, <1>2, <1>3 DEF ServerOK
<1>5. log'[Len(log) + 1] = Entry(p, c, own)
  BY <1>1, <1>2 DEF ServerOK
<1> QED
  BY <1>2, <1>3, <1>4, <1>5 DEF LogKept, Grows

(* So are two of the same.                                                 *)
LEMMA AppendTwiceGrows ==
  ASSUME ServerOK, NEW p \in Paths, NEW c \in Nat, AppendsTwice(p, c)
  PROVE  /\ Grows(p, c, TRUE) /\ Len(log') = Len(log) + 2
         /\ Len(log) + 1 \in DOMAIN log' /\ Len(log) + 2 \in DOMAIN log'
<1>1. PICK e \in LogEntry : e = Entry(p, c, TRUE)
  BY DEF Entry, LogEntry
<1>2. log' = Append(Append(log, e), e)
  BY <1>1 DEF AppendsTwice
<1>0. Len(log) \in Nat
  BY DEF ServerOK
<1>3. LogKept /\ log' \in Seq(LogEntry) /\ Len(log') = Len(log) + 2
  BY LogGrowsTwice
<1>4. DOMAIN log = 1..Len(log) /\ DOMAIN log' = 1..(Len(log) + 2)
  BY <1>0, <1>3 DEF ServerOK
<1>5. log'[Len(log) + 1] = e /\ log'[Len(log) + 2] = e
  <2>1. PICK once : once = Append(log, e)
    OBVIOUS
  <2>2. once \in Seq(LogEntry) /\ Len(once) = Len(log) + 1 /\ once[Len(log) + 1] = e
    BY <2>1 DEF ServerOK
  <2>3. log' = Append(once, e)
    BY <1>2, <2>1
  <2> QED
    BY <1>0, <2>2, <2>3
<1>6. \A i \in DOMAIN log' : i > Len(log) => i = Len(log) + 1 \/ i = Len(log) + 2
  BY <1>0, <1>4
<1>7. \A i \in DOMAIN log' : i > Len(log) => log'[i] = Entry(p, c, TRUE)
  BY <1>1, <1>5, <1>6
<1>8. Len(log') > Len(log) /\ Len(log) + 1 \in DOMAIN log' /\ Len(log) + 2 \in DOMAIN log'
  BY <1>0, <1>3, <1>4
<1> QED
  BY <1>3, <1>7, <1>8 DEF Grows

(* Every step that touches the log makes it grow so.                       *)
LEMMA LogStepGrows ==
  ASSUME TypeInv, [Next]_vars
  PROVE  \/ UNCHANGED log
         \/ \E p \in Paths, c \in Nat, own \in BOOLEAN : Grows(p, c, own)
<1>1. ServerOK
  BY DEF TypeInv, TypeOK
<1>2. ASSUME NEW p \in Paths, NEW c \in Nat, NEW own \in BOOLEAN, Appends(p, c, own)
      PROVE  Grows(p, c, own)
  BY <1>1, <1>2, AppendGrows DEF Appends
<1>3. ASSUME NEW p \in Paths, NEW c \in Nat, AppendsTwice(p, c)
      PROVE  Grows(p, c, TRUE)
  BY <1>1, <1>3, AppendTwiceGrows
<1> QED
  BY <1>2, <1>3, LogChanges

(* What has grown has a new current version; every other path is steady.   *)
LEMMA GrownTips ==
  ASSUME ServerOK, ServerOK', NEW p \in Paths, NEW c \in Nat, NEW own \in BOOLEAN,
         Grows(p, c, own)
  PROVE  /\ Tip(p)' = Len(log') /\ TipContent(p)' = c /\ log'[Len(log')].own = own
         /\ Len(log') \in Nat /\ Len(log) \in Nat
         /\ Foreign(p)' <=> ~own /\ c # Absent
         /\ \A q : q # p => Steady(q)
<1>1. /\ Len(log) \in Nat /\ DOMAIN log = 1..Len(log)
      /\ Len(log') \in Nat /\ DOMAIN log' = 1..Len(log')
  BY DEF ServerOK
<1>2. Len(log') \in DOMAIN log' /\ log'[Len(log')] = Entry(p, c, own) /\ LogKept
  BY <1>1 DEF Grows
<1>3. Tip(p)' = Len(log')
  <2>1. /\ Entries(p)' \in SUBSET (1..Len(log')) /\ Len(log') \in Entries(p)'
        /\ \A i \in Entries(p)' : i <= Len(log')
    BY <1>1, <1>2 DEF Entries, Entry
  <2>2. Latest(Entries(p)') = Len(log')
    BY <1>1, <2>1, LatestIs
  <2> QED
    BY <2>2 DEF Tip
<1>4. TipContent(p)' = c
  BY <1>1, <1>2, <1>3 DEF TipContent, ContentOf, Entry, NoVersion
<1>5. Foreign(p)' <=> ~own /\ c # Absent
  BY <1>1, <1>2, <1>3, <1>4 DEF Foreign, Entry, NoVersion
<1>6. ASSUME NEW q, q # p
      PROVE  Steady(q)
  <2>1. \A i \in DOMAIN log' : log'[i].path = q => i \in DOMAIN log
    BY <1>1, <1>6 DEF Grows, Entry
  <2>2. UNCHANGED Entries(q)
    BY <1>2, <2>1 DEF Entries, LogKept
  <2> QED
    BY <1>2, <2>2, SteadyPath
<1>7. log'[Len(log')].own = own
  BY <1>2 DEF Entry
<1> QED
  BY <1>1, <1>3, <1>4, <1>5, <1>6, <1>7

-----------------------------------------------------------------------------
(* What this client has seen, and what it still will. *)

(* Nothing tells this client that an upload it sent twice arrived twice.   *)
SentTwice == \E i, j \in DOMAIN log : j = i + 1 /\ log[i] = log[j] /\ log[i].own
SentOnce == MaxFaults = 0 \/ ~SentTwice

(* A change of another client matters always, one of our own while all is  *)
(* well and nobody else writes during a cycle.                             *)
Careful == ~troubled /\ SentOnce /\ RemoteMidCycle = FALSE
Relevant(p) == Foreign(p) \/ Careful

(* The current version of p is recorded, or kept in a conflict copy; or a  *)
(* poll will report it.                                                    *)
Known(tip, content, row) == IF row # NoRow THEN tip = row.cv ELSE content = Absent
Seen(p, rows) == Known(Tip(p), TipContent(p), rows[p]) \/ TipContent(p) \in copies
Ahead(p, im) == Tip(p) > im.cursor /\ Tip(p) \notin im.pushed

(* An image of the records, in memory or in state.db, from which a cycle   *)
(* can start.                                                              *)
RowOK(row) == row # NoRow => row.hash # Absent /\ row.rev \in {NoVersion, row.cv}
Sound(im) ==
  /\ im.pushed \subseteq DOMAIN log /\ \A i \in im.pushed : log[i].own
  /\ im.cursor <= Len(log)
  /\ \A p \in Paths : RowOK(im.archive[p])
Covered(im) == im.cursor # NoCursor =>
  \A p \in Paths : Relevant(p) => Seen(p, im.archive) \/ Ahead(p, im)
(* A poll skips our own changes only after all others.                     *)
NewsFirst(im) == Careful /\ im.cursor # NoCursor =>
  \A i, j \in DOMAIN log :
    i > im.cursor /\ i \notin im.pushed /\ j > i => j \notin im.pushed
Good(im) == Sound(im) /\ Covered(im) /\ NewsFirst(im)

(* Steps change nothing back.                                              *)
LEMMA Onward ==
  ASSUME TypeInv, [Next]_vars
  PROVE  (troubled => troubled') /\ copies \subseteq copies'
<1>1. CASE Environment \/ UNCHANGED vars
  <2>1. UNCHANGED copies
    BY <1>1 DEF Environment, UserWrite, UserDelete, UserTurn, RemotePut, RemoteDelete,
                RemoteTurn, PruneRevision, vars, disk
  <2>2. UNCHANGED cycle
    BY <1>1 DEF Environment, UserWrite, UserDelete, UserTurn, RemotePut, RemoteDelete,
                RemoteTurn, PruneRevision, vars
  <2> QED
    BY <2>1, <2>2 DEF cycle
<1>2. CASE Walk \/ PollCursorGone \/ Poll \/ Bootstrap \/ PollFails \/ Finish \/ SaveFails \/ Crash
  BY <1>2 DEF Walk, PollCursorGone, Poll, Bootstrap, PollFails, Finish, SaveFails, Crash,
              Execute, Abandon, Leave, Reload, disk
<1>3. CASE \/ Handlers \/ RequestFails \/ ConflictReplyLost
           \/ \E p \in Paths : PushReplyLost(p) \/ DeleteReplyLost(p)
  <2>1. copies \subseteq copies'
    BY <1>3, HandlersPlan
  <2>2. troubled => troubled'
    BY <1>3 DEF Handlers, PushUpload, PullFetch, DeleteLocal, DeleteRemote, ConflictFetch,
         Record, PullCheck, PullRename, ConflictCompare, ConflictPush, RequestFails,
         ConflictReplyLost, PushReplyLost, DeleteReplyLost, Done, Fail, Continue
  <2> QED
    BY <2>1, <2>2
<1> QED
  BY <1>1, <1>2, <1>3 DEF Next, Cycle, Faults

(* A step that leaves us careful finds us so.                              *)
LEMMA CarefulBefore ==
  ASSUME TypeInv, [Next]_vars, Careful'
  PROVE  Careful
<1>1. LogKept
  BY LogAlwaysKept
<1>2. SentTwice => SentTwice'
  BY <1>1 DEF SentTwice, LogKept
<1> QED
  BY <1>2, Onward DEF Careful, SentOnce

(* An image survives what happens on the server: what is appended there is *)
(* ahead of its cursor, and not among its pushed ones.                     *)
LEMMA GoodStays ==
  ASSUME TypeInv, TypeInv', [Next]_vars, NEW im, Good(im), im.cursor \in Nat \cup {NoCursor}
  PROVE  Good(im)'
<1>1. /\ ServerOK /\ ServerOK' /\ LogKept /\ copies \subseteq copies' /\ (Careful' => Careful)
      /\ Len(log) \in Nat /\ DOMAIN log = 1..Len(log)
      /\ Len(log') \in Nat /\ DOMAIN log' = 1..Len(log')
  BY LogAlwaysKept, Onward, CarefulBefore DEF TypeInv, TypeOK, ServerOK
<1>2. Len(log) <= Len(log')
  <2>1. CASE Len(log) = 0
    BY <1>1, <2>1
  <2>2. CASE Len(log) # 0
    <3>1. Len(log) \in DOMAIN log
      BY <1>1, <2>2
    <3>2. Len(log) \in DOMAIN log'
      BY <1>1, <3>1 DEF LogKept
    <3> QED
      BY <1>1, <3>2
  <2> QED
    BY <2>1, <2>2
<1>3. Sound(im)'
  <2>1. im.cursor <= Len(log')
    BY <1>1, <1>2 DEF Good, Sound, NoCursor
  <2> QED
    BY <1>1, <2>1 DEF Good, Sound, LogKept
<1>4. Covered(im)'
  <2> SUFFICES ASSUME im.cursor # NoCursor, NEW p \in Paths, Relevant(p)'
               PROVE  (Seen(p, im.archive) \/ Ahead(p, im))'
    BY DEF Covered
  <2>1. ASSUME Steady(p)
        PROVE  (Seen(p, im.archive) \/ Ahead(p, im))'
    <3>1. Relevant(p)
      BY <1>1, <2>1 DEF Relevant, Steady
    <3>2. Seen(p, im.archive) \/ Ahead(p, im)
      BY <3>1 DEF Good, Covered
    <3> QED
      BY <1>1, <2>1, <3>2 DEF Seen, Ahead, Steady
  <2>2. CASE UNCHANGED log
    BY <1>1, <2>1, <2>2, SteadyPath DEF Entries
  <2>3. ASSUME NEW q \in Paths, NEW c \in Nat, NEW own \in BOOLEAN, Grows(q, c, own)
        PROVE  (Seen(p, im.archive) \/ Ahead(p, im))'
    <3>1. CASE p # q
      BY <1>1, <2>1, <2>3, <3>1, GrownTips
    <3>2. CASE p = q
      <4>1. Tip(p)' = Len(log') /\ Len(log') > Len(log)
        BY <1>1, <2>3, <3>2, GrownTips DEF Grows
      <4>2. im.cursor <= Len(log) /\ im.pushed \subseteq 1..Len(log)
        BY <1>1 DEF Good, Sound
      <4>3. Len(log') > im.cursor /\ Len(log') \notin im.pushed
        BY <1>1, <4>1, <4>2 DEF NoCursor
      <4> QED
        BY <4>1, <4>3 DEF Ahead
    <3> QED
      BY <3>1, <3>2
  <2> QED
    BY <2>2, <2>3, LogStepGrows
<1>5. NewsFirst(im)'
  <2> SUFFICES ASSUME Careful', im.cursor # NoCursor, NEW i \in DOMAIN log', NEW j \in DOMAIN log',
                      i > im.cursor, i \notin im.pushed, j > i
               PROVE  j \notin im.pushed
    BY DEF NewsFirst
  <2>1. CASE j \in DOMAIN log
    <3>1. i \in DOMAIN log
      BY <1>1, <2>1
    <3> QED
      BY <1>1, <2>1, <3>1 DEF Good, NewsFirst
  <2>2. CASE j \notin DOMAIN log
    BY <2>2 DEF Good, Sound
  <2> QED
    BY <2>1, <2>2
<1> QED
  BY <1>3, <1>4, <1>5 DEF Good

-----------------------------------------------------------------------------
(* The invariant.  Before a cycle executes, the records are good.  While it *)
(* does, they are not, path by path, until the plan of the path has been   *)
(* carried out; so each plan has to be right about its path, and the       *)
(* handler in progress about the one it works on, as long as the path is   *)
(* due: not written by another client since the poll.                      *)

Idle(p) == step.at = "none" \/ step.path # p
Due(p) == (Foreign(p) /\ Tip(p) <= target) \/ Careful
PlanGood(p) ==
  /\ plan[p].act = "pull" => local[p] = archive[p].hash
  /\ Due(p) =>
     /\ plan[p].act \in {"push", "delete_remote"} => Seen(p, archive)
     /\ plan[p].act = "none" /\ ~failed => Seen(p, archive)
     /\ plan[p].act = "pull" => plan[p].rev = Tip(p) /\ TipContent(p) # Absent
     /\ plan[p].act = "delete_local" => TipContent(p) = Absent
     /\ plan[p].act = "conflict" => plan[p].rev \in {NoVersion, Tip(p)}
Executing == pc = "executing" =>
  /\ cursor <= target /\ target <= Len(log) /\ pruneTo <= target + 1
  /\ Careful => \A i \in DOMAIN log : i > target => i \in pushed
  /\ cursor # NoCursor =>
       \A p \in Paths : Foreign(p) => Seen(p, archive) \/ Tip(p) > cursor
  /\ \A p \in Paths : Idle(p) => PlanGood(p)
StepGood ==
  /\ step.at \in {"record"} \cup Downloading => step.rev \in {NoVersion, step.cv}
  /\ step.at = "pull_check" => step.pre = Absent \/ local[step.path] \in {Absent, step.pre}
  /\ step.at # "none" /\ Due(step.path) =>
     /\ step.at \in {"record"} \cup Downloading => step.cv = Tip(step.path)
     /\ step.at \in Downloading => step.got = TipContent(step.path)
     /\ step.at = "conflict_push" => TipContent(step.path) \in copies \cup {Absent}
Phases ==
  /\ pc = "polling" => cursor # NoCursor
  /\ pc = "bootstrapping" => cursor = NoCursor
  /\ failed => troubled
Changes == /\ Good(saved) /\ Sound(Memory) /\ (pc # "executing" => Good(Memory))
           /\ Phases /\ Executing /\ StepGood

(* What is saved stays good while it is not saved again;                   *)
LEMMA SavedStaysGood ==
  ASSUME TypeInv, TypeInv', [Next]_vars, Good(saved), UNCHANGED saved
  PROVE  Good(saved)'
<1>1. PICK im : im = saved
  OBVIOUS
<1>2. im.cursor \in Nat \cup {NoCursor}
  BY <1>1 DEF TypeInv, TypeOK, DiskOK, Version
<1>3. Good(im)'
  BY <1>1, <1>2, GoodStays
<1>4. saved' = im
  BY <1>1
<1> QED
  BY <1>3, <1>4 DEF Good, Sound, Covered, NewsFirst, Seen, Ahead

(* so does what is in memory between two cycles.                           *)
LEMMA MemoryStaysGood ==
  ASSUME TypeInv, TypeInv', [Next]_vars, Good(Memory), UNCHANGED state
  PROVE  Good(Memory)'
<1>1. PICK im : im = Memory
  OBVIOUS
<1>2. im.cursor \in Nat \cup {NoCursor}
  BY <1>1 DEF TypeInv, TypeOK, StateOK, Version, Memory
<1>3. Good(im)'
  BY <1>1, <1>2, GoodStays
<1>4. Memory' = im
  BY <1>1 DEF Memory, state
<1> QED
  BY <1>3, <1>4 DEF Good, Sound, Covered, NewsFirst, Seen, Ahead

(* Between two cycles there is nothing else to keep.                       *)
LEMMA NothingExecuted ==
  ASSUME pc' # "executing", step'.at = "none", Phases', Good(saved)', Good(Memory)'
  PROVE  Changes'
BY DEF Changes, Executing, StepGood, Downloading, Good

(* Clearing the records keeps only what was pushed.                        *)
LEMMA MemoryCleared ==
  ASSUME TypeInv, Sound(Memory), UNCHANGED <<log, pushed>>, cursor' = NoCursor,
         archive' = [p \in Paths |-> NoRow]
  PROVE  Good(Memory)'
<1>1. /\ Memory' = [archive |-> archive', cursor |-> NoCursor, pushed |-> pushed]
      /\ Memory.pushed = pushed /\ Len(log) \in Nat
  BY DEF Memory, TypeInv, TypeOK, ServerOK
<1>2. Sound(Memory)'
  BY <1>1 DEF Sound, RowOK, NoCursor
<1> QED
  BY <1>1, <1>2 DEF Good, Covered, NewsFirst

(* Where nothing the invariant looks at changes, it stays.                 *)
LEMMA NothingHappens ==
  ASSUME Changes, UNCHANGED <<saved, state, cycle>>, UNCHANGED <<local, copies, log>>
  PROVE  Changes'
<1>1. UNCHANGED <<archive, cursor, pushed, pc, plan, step, target, pruneTo, failed, troubled>>
  BY DEF state, cycle
<1>2. \A p : UNCHANGED <<Tip(p), TipContent(p), Foreign(p)>>
  BY DEF Tip, TipContent, ContentOf, Entries, Foreign
<1>3. UNCHANGED <<Careful, Memory>>
  BY <1>1 DEF Careful, SentOnce, SentTwice, Memory
<1>4. \A p : UNCHANGED <<Relevant(p), Due(p), Seen(p, archive)>>
  BY <1>1, <1>2, <1>3 DEF Relevant, Due, Seen
<1>5. Good(saved)' /\ Sound(Memory)' /\ (pc' # "executing" => Good(Memory)')
  BY <1>1, <1>2, <1>3, <1>4 DEF Changes, Good, Sound, Covered, NewsFirst, Seen, Ahead
<1>6. Phases' /\ StepGood'
  BY <1>1, <1>2, <1>4 DEF Changes, Phases, StepGood
<1>7. \A p : PlanGood(p) => PlanGood(p)'
  BY <1>1, <1>2, <1>4 DEF PlanGood
<1>8. Executing'
  BY <1>1, <1>2, <1>3, <1>4, <1>7 DEF Changes, Executing, Idle
<1> QED
  BY <1>5, <1>6, <1>8 DEF Changes

(* What another client writes while plans execute is not due: its path was *)
(* written after the poll.                                                 *)
LEMMA RemoteWriteMidCycle ==
  ASSUME TypeInv, TypeInv', Changes, [Next]_vars, pc = "executing", RemoteMidCycle,
         UNCHANGED <<saved, state, cycle, local, copies>>,
         NEW p \in Paths, NEW c \in Nat, Grows(p, c, FALSE)
  PROVE  Changes'
<1>1. /\ ServerOK /\ ServerOK' /\ Len(log) \in Nat /\ Len(log') \in Nat
      /\ Len(log) < Len(log') /\ DOMAIN log = 1..Len(log) /\ DOMAIN log' = 1..Len(log')
      /\ cursor \in Nat \cup {NoCursor} /\ target \in Nat /\ LogKept
  BY DEF TypeInv, TypeOK, ServerOK, StateOK, CycleOK, Version, Grows
<1>2. ~Careful /\ ~Careful'
  BY DEF Careful
<1>3. UNCHANGED <<archive, cursor, pushed, pc, plan, step, target, pruneTo, failed, troubled>>
  BY DEF state, cycle
<1>4. /\ Tip(p)' = Len(log') /\ \A q : q # p => Steady(q)
  BY <1>1, GrownTips
<1>5. cursor <= target /\ target <= Len(log) /\ pruneTo <= target + 1
  BY DEF Changes, Executing
<1>6. ~Due(p)' /\ \A q : Due(q)' => q # p /\ Due(q)
  <2>1. ~Due(p)'
    BY <1>1, <1>2, <1>3, <1>4, <1>5 DEF Due
  <2>2. \A q : q # p => (Due(q)' => Due(q))
    BY <1>2, <1>3, <1>4 DEF Due, Steady
  <2> QED
    BY <2>1, <2>2
<1>7. \A q : q # p => (Seen(q, archive) => Seen(q, archive)')
  BY <1>3, <1>4 DEF Seen, Steady
<1>8. Good(saved)'
  BY SavedStaysGood DEF Changes
<1>9. Sound(Memory)'
  <2>1. UNCHANGED Memory /\ Memory.cursor = cursor
    BY <1>3 DEF Memory
  <2>2. cursor <= Len(log')
    BY <1>1, <1>5 DEF NoCursor
  <2> QED
    BY <1>1, <2>1, <2>2 DEF Changes, Sound, LogKept
<1>10. Phases'
  BY <1>3 DEF Changes, Phases
<1>11. StepGood'
  BY <1>3, <1>4, <1>6 DEF Changes, StepGood, Steady, Downloading
<1>12. Executing'
  <2>1. cursor <= target /\ target <= Len(log') /\ pruneTo <= target + 1
    BY <1>1, <1>5
  <2>2. ASSUME cursor # NoCursor, NEW q \in Paths, Foreign(q)'
        PROVE  Seen(q, archive)' \/ Tip(q)' > cursor
    <3>1. CASE q = p
      BY <1>1, <1>4, <1>5, <2>2, <3>1 DEF NoCursor
    <3>2. CASE q # p
      <4>1. Foreign(q) /\ Tip(q)' = Tip(q)
        BY <1>4, <2>2, <3>2 DEF Steady
      <4>2. Seen(q, archive) \/ Tip(q) > cursor
        BY <2>2, <4>1 DEF Changes, Executing
      <4> QED
        BY <1>7, <3>2, <4>1, <4>2
    <3> QED
      BY <3>1, <3>2
  <2>3. ASSUME NEW q \in Paths, Idle(q)'
        PROVE  PlanGood(q)'
    <3>1. PlanGood(q)
      BY <1>3, <2>3 DEF Changes, Executing, Idle
    <3> QED
      BY <1>3, <1>4, <1>6, <1>7, <3>1 DEF PlanGood, Steady
  <2> QED
    BY <1>2, <1>3, <2>1, <2>2, <2>3 DEF Executing
<1> QED
  BY <1>3, <1>8, <1>9, <1>10, <1>11, <1>12 DEF Changes

(* Between two cycles and before a cycle executes, only images have to     *)
(* stay good.                                                              *)
LEMMA EnvironmentKeepsChanges ==
  ASSUME TypeInv, TypeInv', BusyExecutes, Changes, UserMidCycle = FALSE,
         [Next]_vars, Environment
  PROVE  Changes'
<1>1. UNCHANGED <<saved, state, cycle>>
  BY DEF Environment, UserWrite, UserDelete, UserTurn, RemotePut, RemoteDelete,
         RemoteTurn, PruneRevision, disk
<1>2. CASE pc # "executing"
  <2>1. pc # "executing" /\ step.at = "none"
    BY <1>2 DEF BusyExecutes
  <2>2. Good(saved)' /\ Good(Memory)'
    BY <1>1, <2>1, SavedStaysGood, MemoryStaysGood DEF Changes
  <2>3. Phases'
    BY <1>1 DEF Changes, Phases, state, cycle
  <2> QED
    BY <1>1, <2>1, <2>2, <2>3, NothingExecuted DEF cycle
<1>3. CASE UNCHANGED <<local, copies, log>>
  BY <1>1, <1>3, NothingHappens
<1>4. ASSUME pc = "executing", NEW p \in Paths, RemotePut(p) \/ RemoteDelete(p)
      PROVE  Changes'
  <2>1. RemoteMidCycle /\ UNCHANGED <<local, copies>>
    BY <1>4 DEF RemotePut, RemoteDelete, RemoteTurn, Quiet, disk
  <2>2. FreshContent \in Nat /\ Absent \in Nat /\ ServerOK
    BY DEF TypeInv, TypeOK, BookkeepingOK, Counters, FreshContent, Absent
  <2>3. \E c \in Nat : Grows(p, c, FALSE)
    BY <1>4, <2>2, AppendGrows DEF RemotePut, RemoteDelete
  <2> QED
    BY <1>1, <1>4, <2>1, <2>3, RemoteWriteMidCycle
<1>5. CASE \E p \in Paths : UserWrite(p) \/ UserDelete(p)
  <2>1. Quiet
    BY <1>5 DEF UserWrite, UserDelete, UserTurn
  <2> QED
    BY <1>2, <2>1 DEF Quiet
<1>6. CASE \E i \in DOMAIN log : PruneRevision(i)
  BY <1>3, <1>6 DEF PruneRevision, disk
<1> QED
  BY <1>2, <1>4, <1>5, <1>6 DEF Environment

-----------------------------------------------------------------------------
(* Planning. *)

(* A row with a hash is a row.                                             *)
LEMMA RowHash ==
  ASSUME NEW row, RowOK(row)
  PROVE  row = NoRow <=> row.hash = Absent
BY DEF RowOK, NoRow

(* A row of a content that is there is sound.                              *)
LEMMA RowWrittenOK ==
  ASSUME NEW h, NEW cv, NEW rev, h # Absent, rev \in {NoVersion, cv}
  PROVE  /\ RowOK(Row(h, cv, rev)) /\ Row(h, cv, rev) # NoRow
         /\ Row(h, cv, rev).cv = cv
BY DEF RowOK, Row, NoRow

(* What a poll reports of a path that matters is its current version; when *)
(* it reports nothing, that one has been seen.                             *)
LEMMA PollNews ==
  ASSUME TypeInv, Good(Memory), cursor # NoCursor, NEW p \in Paths, Relevant(p)
  PROVE  \/ Event(p) # NoVersion /\ Event(p) = Tip(p)
         \/ Event(p) = NoVersion /\ Seen(p, archive)
<1> DEFINE news == {i \in Entries(p) : i > cursor /\ i \notin pushed}
<1>1. /\ ServerOK /\ cursor \in Nat /\ DOMAIN log = 1..Len(log) /\ Len(log) \in Nat
      /\ news \in SUBSET (1..Len(log)) /\ Event(p) = Latest(news)
  BY DEF TypeInv, TypeOK, ServerOK, StateOK, Version, Entries, Event
<1>2. /\ Memory.cursor = cursor /\ Memory.pushed = pushed /\ Memory.archive = archive
  BY DEF Memory
<1>3. CASE Tip(p) \in news
  <2>1. \A j \in news : j <= Tip(p)
    BY <1>1, TipIsLatest
  <2>2. Latest(news) = Tip(p)
    <3> HIDE DEF news
    <3> QED
      BY <1>1, <1>3, <2>1, LatestIs
  <2>3. Tip(p) # NoVersion
    BY <1>1, <1>3 DEF NoVersion
  <2> QED
    BY <1>1, <2>2, <2>3
<1>4. CASE Tip(p) \notin news
  <2>1. ASSUME NEW i \in news
        PROVE  FALSE
    <3>1. /\ i \in Nat /\ i <= Tip(p) /\ Tip(p) \in Entries(p) /\ Tip(p) \in Nat
          /\ i \in DOMAIN log /\ Tip(p) \in DOMAIN log
      BY <1>1, TipIsLatest DEF Entries
    <3>2. Tip(p) > cursor /\ Tip(p) \in pushed
      BY <1>1, <1>4, <3>1
    <3>3. log[Tip(p)].own
      BY <1>2, <3>2 DEF Good, Sound
    <3>4. Careful
      BY <3>3 DEF Relevant, Foreign
    <3>5. Tip(p) > i
      BY <3>1, <3>2
    <3> QED
      BY <1>2, <3>1, <3>2, <3>4, <3>5 DEF Good, NewsFirst
  <2>2. Event(p) = NoVersion
    BY <1>1, <2>1 DEF Latest
  <2>3. ~Ahead(p, Memory)
    <3>1. SUFFICES ASSUME Tip(p) > cursor, Tip(p) \notin pushed PROVE FALSE
      BY <1>2 DEF Ahead
    <3>2. Tip(p) \in Entries(p)
      BY <1>1, <3>1, TipIsLatest DEF NoVersion
    <3> QED
      BY <1>4, <3>1, <3>2
  <2>4. Seen(p, archive)
    BY <1>2, <2>3 DEF Good, Covered
  <2> QED
    BY <2>2, <2>4
<1> QED
  BY <1>3, <1>4

(* CompareIncremental plans well from such an event.                       *)
LEMMA IncrementalPlanGood ==
  ASSUME TypeInv, NEW p \in Paths, UNCHANGED <<local, archive, log, copies>>,
         Due(p)' => Relevant(p), RowOK(archive[p]),
         Relevant(p) => \/ Event(p) # NoVersion /\ Event(p) = Tip(p)
                        \/ Event(p) = NoVersion /\ Seen(p, archive),
         plan'[p] = Plan(IncrementalAction(local[p], archive[p].hash, EventKind(Event(p))),
                         IF EventKind(Event(p)) = "put" THEN Event(p) ELSE NoVersion)
  PROVE  PlanGood(p)'
<1> DEFINE kind == EventKind(Event(p))
           hash == archive[p].hash
           act == IncrementalAction(local[p], hash, kind)
<1>1. kind \in {"none", "put", "delete"}
  BY DEF EventKind
<1>2. /\ act = "pull" => local[p] = hash /\ kind = "put"
      /\ act \in {"push", "delete_remote"} => kind = "none"
      /\ act = "delete_local" => kind = "delete"
      /\ act = "none" => kind = "none" \/ (kind = "delete" /\ hash = Absent)
  <2> HIDE DEF kind, hash
  <2> QED
    BY <1>1 DEF IncrementalAction, LocalSame, LocalDeleted, LocalChanged, LocalNew
<1>3. plan'[p].act = act /\ plan'[p].rev = IF kind = "put" THEN Event(p) ELSE NoVersion
  BY DEF Plan
<1>4. /\ UNCHANGED <<Tip(p), TipContent(p)>>
      /\ Seen(p, archive)' <=> Seen(p, archive)
  BY DEF Tip, TipContent, ContentOf, Entries, Seen
<1>5. /\ Event(p) = Tip(p) /\ Event(p) # NoVersion =>
           /\ kind = "put" => TipContent(p) # Absent
           /\ kind = "delete" => TipContent(p) = Absent
           /\ kind # "none"
      /\ Event(p) = NoVersion => kind = "none"
  BY DEF EventKind, TipContent, ContentOf
<1>6. hash = Absent /\ TipContent(p) = Absent => Seen(p, archive)
  BY RowHash DEF Seen, Known
<1> HIDE DEF act, kind, hash
<1>7. ASSUME Relevant(p)
      PROVE  /\ act \in {"push", "delete_remote", "none"} => Seen(p, archive)
             /\ act = "pull" => plan'[p].rev = Tip(p) /\ TipContent(p) # Absent
             /\ act = "delete_local" => TipContent(p) = Absent
             /\ act = "conflict" => plan'[p].rev \in {NoVersion, Tip(p)}
  BY <1>1, <1>2, <1>3, <1>5, <1>6, <1>7
<1>8. act = "pull" => local'[p] = archive'[p].hash
  BY <1>2 DEF hash
<1> QED
  BY <1>3, <1>4, <1>7, <1>8 DEF PlanGood

(* So do PrefillArchiveForIdempotentApply and Compare from the snapshot.   *)
LEMMA FullPlanGood ==
  ASSUME TypeInv, NEW p \in Paths, UNCHANGED <<local, log, copies>>,
         Due(p)' => Relevant(p),
         archive'[p] = IF local[p] # Absent /\ local[p] = TipContent(p)
                       THEN Row(local[p], Tip(p), Tip(p)) ELSE NoRow,
         plan'[p] = Plan(FullAction(local[p], archive'[p].hash, TipContent(p) # Absent),
                         IF TipContent(p) # Absent THEN Tip(p) ELSE NoVersion)
  PROVE  PlanGood(p)' /\ RowOK(archive'[p])
<1> DEFINE tip == Tip(p)
           content == TipContent(p)
           row == archive'[p]
           act == FullAction(local[p], row.hash, content # Absent)
<1>1. /\ Tip(p)' = tip /\ TipContent(p)' = content
      /\ Seen(p, archive)' <=> Known(tip, content, row) \/ content \in copies
  BY DEF Tip, TipContent, ContentOf, Entries, Seen
<1>2. plan'[p].act = act /\ plan'[p].rev = IF content # Absent THEN tip ELSE NoVersion
  BY DEF Plan
<1> HIDE DEF act, tip, content
<1>3. CASE local[p] # Absent /\ local[p] = content
  <2>1. row = Row(local[p], tip, tip) /\ row.hash = local[p] /\ row.cv = tip /\ row.rev = tip
    BY <1>3 DEF Row, tip, content
  <2>2. row # NoRow
    BY <1>3, <2>1 DEF NoRow
  <2>3. act = "none"
    BY <1>3, <2>1 DEF act, FullAction, LocalChanged, LocalDeleted
  <2> QED
    BY <1>1, <1>2, <1>3, <2>1, <2>2, <2>3 DEF PlanGood, RowOK, Known
<1>4. CASE ~(local[p] # Absent /\ local[p] = content)
  <2>1. row = NoRow /\ row.hash = Absent
    BY <1>4 DEF content, NoRow
  <2>2. /\ act = "none" => local[p] = Absent /\ content = Absent
        /\ act = "push" => content = Absent
        /\ act = "pull" => content # Absent /\ local[p] = Absent
        /\ act \notin {"delete_local", "delete_remote"}
    BY <2>1 DEF act, FullAction
  <2> QED
    BY <1>1, <1>2, <2>1, <2>2 DEF PlanGood, RowOK, Known
<1> QED
  BY <1>3, <1>4

(* The steps before the first plan.                                        *)
LEMMA PlanningKeepsChanges ==
  ASSUME TypeInv, TypeInv', BusyExecutes, EditInv, Changes, [Next]_vars,
         Walk \/ Poll \/ Bootstrap \/ PollFails \/ PollCursorGone
  PROVE  Changes'
<1>1. /\ pc # "executing" /\ step.at = "none" /\ UNCHANGED <<saved, local, copies, log>>
  BY DEF Walk, Poll, Bootstrap, PollFails, PollCursorGone, Quiet, BusyExecutes, disk, server
<1>2. Good(saved)' /\ Good(Memory) /\ Sound(Memory)
  BY <1>1, SavedStaysGood DEF Changes
<1>3. \A p : Due(p)' => Relevant(p)
  BY <1>1, CarefulBefore DEF Due, Relevant, Foreign, Tip, TipContent, ContentOf, Entries
<1>4. CASE Walk
  <2>1. pc' # "executing" /\ UNCHANGED <<cursor, step, failed, troubled>>
    BY <1>4 DEF Walk
  <2>2. Phases'
    BY <1>4, <2>1 DEF Walk, Changes, Phases
  <2>3. Good(Memory)'
    <3>1. CASE UNCHANGED state
      BY <1>2, <3>1, MemoryStaysGood
    <3>2. CASE cursor = NoCursor /\ archive' = [p \in Paths |-> NoRow]
      BY <1>1, <1>2, <1>4, <3>2, MemoryCleared DEF Walk
    <3> QED
      BY <1>4, <3>1, <3>2 DEF Walk, state
  <2> QED
    BY <1>1, <1>2, <2>1, <2>2, <2>3, NothingExecuted
<1>5. CASE PollCursorGone
  <2>1. /\ pc' = "bootstrapping" /\ cursor' = NoCursor /\ UNCHANGED <<pushed, step, failed, troubled>>
        /\ archive' = [p \in Paths |-> NoRow]
    BY <1>5 DEF PollCursorGone
  <2>2. Phases'
    BY <2>1 DEF Changes, Phases
  <2>3. Good(Memory)'
    BY <1>1, <1>2, <2>1, MemoryCleared
  <2> QED
    BY <1>1, <1>2, <2>1, <2>2, <2>3, NothingExecuted
<1>6. ASSUME Abandon, UNCHANGED state
      PROVE  Changes'
  <2>1. pc' = "idle" /\ step'.at = "none" /\ failed' = FALSE
    BY <1>6 DEF Abandon, Leave, NoStep
  <2>2. Phases'
    BY <2>1 DEF Phases
  <2> QED
    BY <1>2, <1>6, <2>1, <2>2, MemoryStaysGood, NothingExecuted
<1>7. CASE PollFails
  BY <1>6, <1>7 DEF PollFails
<1>8. ASSUME pc' = "executing", UNCHANGED <<step, failed, troubled>>, Sound(Memory)',
             cursor' <= target', target' = Len(log), pruneTo' <= Len(log) + 1,
             cursor' # NoCursor => \A p \in Paths : Foreign(p) => Seen(p, archive') \/ Tip(p) > cursor',
             \A p \in Paths : PlanGood(p)'
      PROVE  Changes'
  <2>1. Phases' /\ StepGood'
    BY <1>1, <1>8 DEF Changes, Phases, StepGood, Downloading
  <2>2. Len(log) \in Nat /\ DOMAIN log = 1..Len(log)
    BY DEF TypeInv, TypeOK, ServerOK
  <2>3. \A i \in DOMAIN log : ~(i > Len(log))
    BY <2>2
  <2>4. Executing'
    BY <1>1, <1>8, <2>2, <2>3 DEF Executing, Foreign, Tip, TipContent, ContentOf, Entries, Seen
  <2> QED
    BY <1>2, <1>8, <2>1, <2>4 DEF Changes
<1>9. CASE Poll
  <2> DEFINE act(p) == IncrementalAction(scan[p], archive[p].hash, EventKind(Event(p)))
             rev(p) == IF EventKind(Event(p)) = "put" THEN Event(p) ELSE NoVersion
             plans == [p \in Paths |-> Plan(act(p), rev(p))]
             first == IF cursor < Len(log) THEN cursor + 1 ELSE 0
  <2>1. scan = local /\ UNCHANGED state /\ cursor # NoCursor
    BY <1>9 DEF Poll, EditInv, ScanCurrent, Changes, Phases
  <2>2. Execute(plans, Len(log), first, archive)
    BY <1>9 DEF Poll
  <2>3. CASE TooManyDeletes(plans, archive)
    BY <1>6, <2>1, <2>2, <2>3 DEF Execute
  <2>4. CASE ~TooManyDeletes(plans, archive)
    <3> HIDE DEF first
    <3>1. /\ pc' = "executing" /\ plan' = plans /\ target' = Len(log) /\ pruneTo' = first
          /\ UNCHANGED <<step, failed, troubled>>
      BY <2>2, <2>4 DEF Execute
    <3>2. Sound(Memory)'
      BY <1>2, <2>1, MemoryStaysGood DEF Good
    <3>3. /\ cursor \in Nat /\ Len(log) \in Nat /\ cursor <= Len(log)
          /\ first <= Len(log) + 1
      BY <1>2, <2>1
      DEF TypeInv, TypeOK, StateOK, ServerOK, Version, Sound, Memory, first
    <3>4. \A p \in Paths : Foreign(p) => Seen(p, archive) \/ Tip(p) > cursor
      BY <1>2, <2>1 DEF Good, Covered, Memory, Relevant, Ahead
    <3>5. ASSUME NEW p \in Paths
          PROVE  PlanGood(p)'
      <4>1. plan'[p] = Plan(IncrementalAction(local[p], archive[p].hash, EventKind(Event(p))),
                            IF EventKind(Event(p)) = "put" THEN Event(p) ELSE NoVersion)
        BY <2>1, <3>1
      <4>2. RowOK(archive[p])
        BY <1>2 DEF Sound, Memory
      <4> QED
        BY <1>1, <1>2, <1>3, <2>1, <4>1, <4>2, PollNews, IncrementalPlanGood DEF state
    <3>6. UNCHANGED <<archive, cursor>>
      BY <2>1 DEF state
    <3> HIDE DEF plans
    <3> QED
      BY <1>8, <3>1, <3>2, <3>3, <3>4, <3>5, <3>6
  <2> QED
    BY <2>3, <2>4
<1>10. CASE Bootstrap
  <2> DEFINE identical(p) == scan[p] # Absent /\ scan[p] = TipContent(p)
             rows == [p \in Paths |-> IF identical(p)
                                      THEN Row(scan[p], Tip(p), Tip(p)) ELSE NoRow]
             remote(p) == TipContent(p) # Absent
             act(p) == FullAction(scan[p], rows[p].hash, remote(p))
             rev(p) == IF remote(p) THEN Tip(p) ELSE NoVersion
             plans == [p \in Paths |-> Plan(act(p), rev(p))]
  <2>1. scan = local /\ cursor = NoCursor /\ UNCHANGED <<cursor, pushed>> /\ archive' = rows
    BY <1>10 DEF Bootstrap, EditInv, ScanCurrent, Changes, Phases
  <2>2. Execute(plans, Len(log), 0, rows)
    BY <1>10 DEF Bootstrap
  <2>3. \A p \in Paths : archive'[p] = IF local[p] # Absent /\ local[p] = TipContent(p)
                                       THEN Row(local[p], Tip(p), Tip(p)) ELSE NoRow
    BY <2>1
  <2>4. Sound(Memory)'
    <3>1. /\ Memory'.archive = archive' /\ Memory'.cursor = cursor /\ Memory'.pushed = pushed
          /\ Memory.cursor = cursor /\ Memory.pushed = pushed
      BY <2>1 DEF Memory
    <3>2. ASSUME NEW p \in Paths
          PROVE  RowOK(archive'[p])
      <4> HIDE DEF rows
      <4>1. CASE local[p] # Absent /\ local[p] = TipContent(p)
        BY <2>3, <4>1, RowWrittenOK
      <4>2. CASE ~(local[p] # Absent /\ local[p] = TipContent(p))
        BY <2>3, <4>2 DEF RowOK
      <4> QED
        BY <4>1, <4>2
    <3> QED
      BY <1>1, <1>2, <3>1, <3>2 DEF Sound
  <2>5. CASE TooManyDeletes(plans, rows)
    <3>1. pc' = "idle" /\ step'.at = "none" /\ failed' = FALSE
      BY <2>2, <2>5 DEF Execute, Abandon, Leave, NoStep
    <3>2. Phases'
      BY <3>1 DEF Phases
    <3>3. Memory'.cursor = NoCursor
      BY <2>1 DEF Memory
    <3>4. Good(Memory)'
      BY <2>4, <3>3 DEF Good, Covered, NewsFirst
    <3> QED
      BY <1>2, <3>1, <3>2, <3>4, NothingExecuted
  <2>6. CASE ~TooManyDeletes(plans, rows)
    <3>1. /\ pc' = "executing" /\ plan' = plans /\ target' = Len(log) /\ pruneTo' = 0
          /\ UNCHANGED <<step, failed, troubled>>
      BY <2>2, <2>6 DEF Execute
    <3>2. ASSUME NEW p \in Paths
          PROVE  PlanGood(p)'
      <4>1. plan'[p] = Plan(FullAction(local[p], archive'[p].hash, TipContent(p) # Absent),
                            IF TipContent(p) # Absent THEN Tip(p) ELSE NoVersion)
        BY <2>1, <3>1
      <4> QED
        BY <1>1, <1>3, <2>3, <4>1, FullPlanGood
    <3>3. Len(log) \in Nat
      BY DEF TypeInv, TypeOK, ServerOK
    <3> HIDE DEF plans
    <3> QED
      BY <1>8, <2>1, <2>4, <3>1, <3>2, <3>3 DEF NoCursor
  <2> QED
    BY <2>5, <2>6
<1> QED
  BY <1>4, <1>5, <1>7, <1>9, <1>10

-----------------------------------------------------------------------------
(* The end of a cycle, and of the process. *)

(* With every plan carried out, the cursor has nothing left behind.        *)
LEMMA CycleEndsGood ==
  ASSUME TypeInv, Changes, CycleOver, AdvanceCursor, PrunePushedSeqs,
         UNCHANGED <<archive, log, copies, troubled>>
  PROVE  Good(Memory)'
<1>1. /\ Len(log) \in Nat /\ DOMAIN log = 1..Len(log) /\ cursor \in Nat \cup {NoCursor}
      /\ target \in Nat /\ pruneTo \in Nat /\ pushed \subseteq DOMAIN log
      /\ pc = "executing"
  BY DEF TypeInv, TypeOK, ServerOK, StateOK, CycleOK, Version, Changes, Sound, Memory,
         CycleOver
<1>2. /\ Memory'.archive = archive /\ Memory'.cursor = (IF failed THEN cursor ELSE target)
      /\ Memory'.pushed = {i \in pushed : i >= pruneTo}
  BY DEF AdvanceCursor, PrunePushedSeqs, Memory
<1>3. \A p \in Paths : plan[p].act = "none" /\ PlanGood(p)
  <2>1. \A p \in Paths : plan[p].act = "none" /\ Idle(p)
    BY DEF CycleOver, Planned, Idle, NoStep
  <2> QED
    BY <1>1, <2>1 DEF Changes, Executing
<1>4. \A p : /\ UNCHANGED <<Tip(p), TipContent(p)>>
             /\ Relevant(p)' = Relevant(p) /\ Foreign(p)' = Foreign(p)
  BY DEF Tip, TipContent, ContentOf, Entries, Relevant, Foreign, Careful, SentOnce, SentTwice
<1>5. Careful' => Careful
  BY DEF Careful, SentOnce, SentTwice
<1>6. Sound(Memory)'
  <2>1. (IF failed THEN cursor ELSE target) <= Len(log)
    BY <1>1 DEF Changes, Sound, Executing, Memory
  <2> QED
    BY <1>1, <1>2, <2>1 DEF Changes, Sound, Memory
<1>7. Covered(Memory)'
  <2> SUFFICES ASSUME Memory'.cursor # NoCursor, NEW p \in Paths, Relevant(p)
               PROVE  (Seen(p, Memory.archive) \/ Ahead(p, Memory))'
    BY <1>4 DEF Covered
  <2>1. Seen(p, Memory.archive)' <=> Seen(p, archive)
    BY <1>2, <1>4 DEF Seen
  <2>2. CASE ~failed
    <3>1. CASE Due(p)
      BY <1>3, <2>1, <2>2, <3>1 DEF PlanGood
    <3>2. CASE ~Due(p)
      <4>1. Foreign(p) /\ ~(Tip(p) <= target)
        BY <3>2 DEF Due, Relevant
      <4>2. Tip(p) \notin pushed /\ Tip(p) \in Nat
        BY <4>1, TipIsLatest DEF Foreign, Changes, Sound, Memory, TypeInv, TypeOK
      <4> QED
        BY <1>1, <1>2, <1>4, <2>2, <4>1, <4>2 DEF Ahead
    <3> QED
      BY <3>1, <3>2
  <2>3. CASE failed
    <3>1. Foreign(p) /\ cursor # NoCursor
      BY <1>2, <2>3 DEF Changes, Phases, Careful, Relevant
    <3>2. Seen(p, archive) \/ Tip(p) > cursor
      BY <1>1, <3>1 DEF Changes, Executing
    <3>3. Tip(p) \notin pushed
      BY <3>1 DEF Foreign, Changes, Sound, Memory
    <3> QED
      BY <1>2, <1>4, <2>1, <2>3, <3>2, <3>3 DEF Ahead
  <2> QED
    BY <2>2, <2>3
<1>8. NewsFirst(Memory)'
  <2> SUFFICES ASSUME Careful, NEW i \in DOMAIN log, i > Memory'.cursor,
                      i \notin Memory'.pushed
               PROVE  FALSE
    BY <1>5 DEF NewsFirst
  <2>1. ~failed
    BY DEF Careful, Changes, Phases
  <2>2. i > target
    BY <1>2, <2>1
  <2>3. i \in pushed /\ pruneTo <= target + 1
    BY <1>1, <2>2 DEF Changes, Executing
  <2> QED
    BY <1>1, <1>2, <2>2, <2>3
<1> QED
  BY <1>6, <1>7, <1>8 DEF Good

(* A cycle ends, saved or not, or the process starts again.                *)
LEMMA EndingKeepsChanges ==
  ASSUME TypeInv, TypeInv', Changes, [Next]_vars, Finish \/ SaveFails \/ Crash
  PROVE  Changes'
<1>1. /\ pc' \in {"idle", "starting"} /\ step'.at = "none" /\ failed' = FALSE
      /\ UNCHANGED <<log, copies, troubled>>
  BY DEF Finish, SaveFails, Crash, Reload, Abandon, Leave, NoStep, server, disk
<1>2. Phases'
  BY <1>1 DEF Phases
<1>3. CASE Finish \/ SaveFails
  <2>1. CycleOver /\ AdvanceCursor /\ PrunePushedSeqs /\ UNCHANGED archive
    BY <1>3 DEF Finish, SaveFails
  <2>2. Good(Memory)'
    BY <1>1, <2>1, CycleEndsGood
  <2>3. Good(saved)'
    <3>1. CASE UNCHANGED saved
      BY <3>1, SavedStaysGood DEF Changes
    <3>2. CASE saved' = Memory'
      BY <2>2, <3>2 DEF Good, Sound, Covered, NewsFirst, Seen, Ahead
    <3> QED
      BY <1>3, <3>1, <3>2 DEF Finish, SaveFails, disk
  <2> QED
    BY <1>1, <1>2, <2>2, <2>3, NothingExecuted
<1>4. CASE Crash
  <2>1. /\ saved' \in {saved, Empty}
        /\ Memory'.archive = saved'.archive /\ Memory'.cursor = saved'.cursor
        /\ Memory'.pushed = saved'.pushed
    BY <1>4 DEF Crash, Reload, Memory
  <2>2. Good(saved)'
    <3>1. CASE UNCHANGED saved
      BY <3>1, SavedStaysGood DEF Changes
    <3>2. CASE saved' = Empty
      <4>1. /\ saved'.cursor = NoCursor /\ saved'.pushed = {} /\ Len(log') \in Nat
            /\ \A p \in Paths : saved'.archive[p] = NoRow
        BY <3>2 DEF Empty, TypeInv, TypeOK, ServerOK
      <4> QED
        BY <4>1 DEF Good, Sound, Covered, NewsFirst, RowOK, NoCursor
    <3> QED
      BY <2>1, <3>1, <3>2
  <2>3. Good(Memory)'
    BY <2>1, <2>2 DEF Good, Sound, Covered, NewsFirst, Seen, Ahead
  <2> QED
    BY <1>1, <1>2, <2>2, <2>3, NothingExecuted
<1> QED
  BY <1>3, <1>4

-----------------------------------------------------------------------------
(* Handlers. *)

(* What lets it replace another client's version of p.                     *)
Allowed(p) == Seen(p, archive) \/ (Tip(p) > target /\ Unconditional(p))

(* What any handler of p leaves alone, and what it may append to the log.  *)
Uploads(p) ==
  /\ \E c \in Nat : Grows(p, c, TRUE)
  /\ Foreign(p) => Allowed(p)
  /\ pushed' \in {pushed, pushed \cup {Len(log')}}
  /\ Careful' => Len(log') = Len(log) + 1 /\ Len(log') \in pushed'
Handles(p) ==
  /\ pc = "executing" /\ UNCHANGED <<pc, target, pruneTo, cursor, saved>>
  /\ step.at = "none" \/ step.path = p
  /\ step'.at = "none" \/ step'.path = p
  /\ \A q \in Paths : q # p => UNCHANGED <<plan[q], archive[q], local[q]>>
  /\ UNCHANGED <<failed, troubled>> \/ (failed' /\ troubled')
  /\ UNCHANGED <<log, pushed>> \/ Uploads(p)

(* What it makes of its plan and of the row of p.                          *)
Outcome(p) ==
  /\ StepGood'
  /\ Idle(p)' => plan'[p] = NoPlan /\ (failed' \/ (Due(p)' => Seen(p, archive)'))
  /\ RowOK(archive'[p])
  /\ UNCHANGED archive[p] \/ (Due(p)' => Seen(p, archive)')
  /\ UNCHANGED archive[p] \/ archive'[p] = NoRow
       \/ (Due(p) => archive'[p].cv = Tip(p))

(* Such a handler keeps the invariant.                                     *)
LEMMA HandledGood ==
  ASSUME TypeInv, TypeInv', Changes, [Next]_vars, NEW p \in Paths, Handles(p), Outcome(p)
  PROVE  Changes'
<1>1. /\ ServerOK /\ ServerOK' /\ LogKept /\ copies \subseteq copies' /\ (Careful' => Careful)
      /\ Len(log) \in Nat /\ DOMAIN log = 1..Len(log) /\ Len(log') \in Nat
      /\ DOMAIN log' = 1..Len(log') /\ cursor \in Nat \cup {NoCursor} /\ target \in Nat
  <2>1. LogKept /\ copies \subseteq copies' /\ (Careful' => Careful)
    BY LogAlwaysKept, Onward, CarefulBefore
  <2>2. /\ Len(log) \in Nat /\ DOMAIN log = 1..Len(log) /\ Len(log') \in Nat
        /\ DOMAIN log' = 1..Len(log') /\ ServerOK /\ ServerOK'
    BY DEF TypeInv, TypeOK, ServerOK
  <2>3. cursor \in Nat \cup {NoCursor} /\ target \in Nat
    BY DEF TypeInv, TypeOK, StateOK, CycleOK, Version
  <2> QED
    BY <2>1, <2>2, <2>3
<1>2. /\ pc = "executing" /\ UNCHANGED <<pc, target, pruneTo, cursor, saved>>
      /\ \A q \in Paths : q # p => UNCHANGED <<plan[q], archive[q], local[q]>>
      /\ (failed => failed') /\ StepGood'
  BY DEF Handles, Outcome
<1>3. Good(saved)'
  BY <1>2, SavedStaysGood DEF Changes
<1>4. Phases'
  BY <1>2 DEF Handles, Changes, Phases
<1>5. /\ Len(log) <= Len(log') /\ pushed \subseteq pushed'
      /\ pushed' \subseteq DOMAIN log' /\ \A i \in pushed' : log'[i].own
      /\ \A i \in DOMAIN log' : i > Len(log) => log'[i].own /\ (Careful' => i \in pushed')
  <2>1. pushed \subseteq DOMAIN log /\ \A i \in pushed : log[i].own
    BY DEF Changes, Sound, Memory
  <2>2. CASE UNCHANGED <<log, pushed>>
    BY <1>1, <2>1, <2>2
  <2>3. CASE Uploads(p)
    <3>1. PICK c \in Nat : Grows(p, c, TRUE)
      BY <2>3 DEF Uploads
    <3>2. /\ Len(log') > Len(log) /\ Len(log') \in DOMAIN log'
          /\ \A i \in DOMAIN log' : i > Len(log) => log'[i].own
      BY <1>1, <3>1 DEF Grows, Entry
    <3>3. \A i \in pushed' : i \in pushed \/ i = Len(log')
      BY <2>3 DEF Uploads
    <3>4. Careful' => \A i \in DOMAIN log' : i > Len(log) => i \in pushed'
      BY <1>1, <2>3 DEF Uploads
    <3>5. pushed \subseteq pushed'
      BY <2>3 DEF Uploads
    <3>6. pushed' \subseteq DOMAIN log' /\ \A i \in pushed' : log'[i].own
      BY <1>1, <2>1, <3>2, <3>3 DEF LogKept
    <3> QED
      BY <1>1, <3>2, <3>4, <3>5, <3>6
  <2> QED
    BY <2>2, <2>3 DEF Handles
<1>6. Sound(Memory)'
  <2>1. /\ Memory'.archive = archive' /\ Memory'.cursor = cursor /\ Memory'.pushed = pushed'
        /\ Memory.archive = archive /\ Memory.cursor = cursor
    BY <1>2 DEF Memory
  <2>2. \A q \in Paths : RowOK(archive'[q])
    BY <1>2, <2>1 DEF Outcome, Changes, Sound
  <2>3. cursor <= Len(log')
    BY <1>1, <1>5, <2>1 DEF Changes, Sound, NoCursor
  <2> QED
    BY <1>5, <2>1, <2>2, <2>3 DEF Sound
<1>7. /\ UNCHANGED log => Steady(p)
      /\ ~UNCHANGED log => ~Foreign(p)'
      /\ \A q \in Paths : q # p => Steady(q)
  <2>1. CASE UNCHANGED log
    <3>1. \A q \in Paths : Steady(q)
      BY <1>1, <2>1, SteadyPath DEF Entries
    <3> QED
      BY <2>1, <3>1
  <2>2. CASE ~UNCHANGED log
    <3>1. PICK c \in Nat : Grows(p, c, TRUE)
      BY <2>2 DEF Handles, Uploads
    <3> QED
      BY <1>1, <2>2, <3>1, GrownTips
  <2> QED
    BY <2>1, <2>2
<1>8. ASSUME NEW q \in Paths, q # p
      PROVE  /\ Due(q)' => Due(q)
             /\ Seen(q, archive) => Seen(q, archive)'
             /\ Idle(q) /\ (PlanGood(q) => PlanGood(q)')
  <2>1. Steady(q) /\ UNCHANGED <<plan[q], archive[q], local[q]>>
    BY <1>2, <1>7, <1>8
  <2>2. Due(q)' => Due(q)
    BY <1>1, <1>2, <2>1 DEF Due, Steady
  <2>3. Seen(q, archive) => Seen(q, archive)'
    BY <1>1, <2>1 DEF Seen, Steady
  <2>4. PlanGood(q) => PlanGood(q)'
    BY <1>2, <2>1, <2>2, <2>3 DEF PlanGood, Steady
  <2> QED
    BY <1>8, <2>2, <2>3, <2>4 DEF Idle, Handles
<1>9. Executing'
  <2>1. cursor <= target /\ target <= Len(log') /\ pruneTo <= target + 1
    BY <1>1, <1>2, <1>5 DEF Changes, Executing
  <2>2. Careful' => \A i \in DOMAIN log' : i > target => i \in pushed'
    <3>1. Careful => \A i \in DOMAIN log : i > target => i \in pushed
      BY <1>2 DEF Changes, Executing
    <3>2. \A i \in DOMAIN log' : i > Len(log) \/ i \in DOMAIN log
      BY <1>1
    <3> QED
      BY <1>1, <1>5, <3>1, <3>2 DEF LogKept
  <2>3. ASSUME cursor # NoCursor, NEW q \in Paths, Foreign(q)'
        PROVE  Seen(q, archive)' \/ Tip(q)' > cursor
    <3>1. Foreign(q) => Seen(q, archive) \/ Tip(q) > cursor
      BY <1>2, <2>3 DEF Changes, Executing
    <3>2. CASE q # p
      BY <1>7, <1>8, <2>3, <3>1, <3>2 DEF Steady
    <3>3. CASE q = p
      <4>1. Steady(p)
        BY <1>7, <2>3, <3>3
      <4>2. CASE UNCHANGED archive[p]
        BY <1>1, <2>3, <3>1, <3>3, <4>1, <4>2 DEF Steady, Seen
      <4>3. CASE ~UNCHANGED archive[p]
        <5>1. Due(p)' => Seen(p, archive)'
          BY <4>3 DEF Outcome
        <5>2. CASE Tip(p)' <= target
          BY <1>2, <2>3, <3>3, <5>1, <5>2 DEF Due
        <5>3. CASE ~(Tip(p)' <= target)
          <6>1. Tip(p)' \in Nat
            BY <1>1, <4>1, TipIsLatest DEF Steady
          <6> QED
            BY <1>1, <2>1, <3>3, <5>3, <6>1 DEF NoCursor
        <5> QED
          BY <5>2, <5>3
      <4> QED
        BY <4>2, <4>3
    <3> QED
      BY <3>2, <3>3
  <2>4. ASSUME NEW q \in Paths, Idle(q)'
        PROVE  PlanGood(q)'
    <3>1. CASE q # p
      BY <1>2, <1>8, <3>1 DEF Changes, Executing
    <3>2. CASE q = p
      BY <2>4, <3>2 DEF Outcome, PlanGood, NoPlan
    <3> QED
      BY <3>1, <3>2
  <2> QED
    BY <1>2, <2>1, <2>2, <2>3, <2>4 DEF Executing
<1> QED
  BY <1>2, <1>3, <1>4, <1>6, <1>9 DEF Changes

(* The end of a handler, in success or not.                                *)
LEMMA Ended ==
  ASSUME PlanOK, NEW p \in Paths, Done(p) \/ Fail(p)
  PROVE  /\ StepGood' /\ step'.at = "none" /\ plan'[p] = NoPlan
         /\ \A q \in Paths : q # p => UNCHANGED plan[q]
         /\ UNCHANGED <<failed, troubled>> \/ (failed' /\ troubled')
         /\ Fail(p) => failed'
BY DEF PlanOK, Done, Fail, StepGood, NoStep, Downloading

(* A download gets the current version, whichever way it takes.            *)
LEMMA FetchesTip ==
  ASSUME NEW p, NEW rev
  PROVE  /\ Fetched(p, rev).rev \in {NoVersion, Fetched(p, rev).cv}
         /\ rev \in {NoVersion, Tip(p)} => /\ Fetched(p, rev).got = TipContent(p)
                                         /\ Fetched(p, rev).cv = Tip(p)
BY DEF Fetched, TipContent

(* What a handler whose turn it is finds.                                  *)
LEMMA TurnGood ==
  ASSUME Changes, NEW p \in Paths, Turn(p)
  PROVE  /\ pc = "executing" /\ step.at = "none"
         /\ PlanGood(p) /\ RowOK(archive[p])
BY DEF Turn, NoStep, Changes, Executing, Idle, Sound, Memory

(* What one in progress works on.                                          *)
LEMMA AtGood ==
  ASSUME TypeInv, Changes, step.at # "none"
  PROVE  step.path \in Paths /\ RowOK(archive[step.path])
<1>1. step.path \in Paths
  BY DEF TypeInv, TypeOK, StepOK
<1>2. \A p \in Paths : RowOK(archive[p])
  BY DEF Changes, Sound, Memory
<1> QED
  BY <1>1, <1>2

(* A handler that ends with its path seen, or in an error.                 *)
LEMMA EndedWell ==
  ASSUME NEW p \in Paths, PlanOK, Done(p) \/ Fail(p), RowOK(archive[p]),
         UNCHANGED archive[p], Fail(p) \/ (Due(p)' => Seen(p, archive)')
  PROVE  Outcome(p)
BY Ended DEF Outcome

(* One that goes on to a good step, the row as it was.                     *)
LEMMA GoesOnWell ==
  ASSUME NEW p, RowOK(archive[p]), UNCHANGED archive[p], StepGood',
         step'.at # "none", step'.path = p
  PROVE  Outcome(p)
BY DEF Outcome, Idle

(* A path nothing is appended for stays seen.                              *)
LEMMA SeenStays ==
  ASSUME TypeInv, [Next]_vars, NEW p \in Paths, UNCHANGED log
  PROVE  /\ Steady(p) /\ (UNCHANGED target => (Due(p)' => Due(p)))
         /\ UNCHANGED archive[p] => (Seen(p, archive) => Seen(p, archive)')
<1>1. Steady(p)
  BY LogAlwaysKept, SteadyPath DEF TypeInv, TypeOK, Entries
<1>2. UNCHANGED target => (Due(p)' => Due(p))
  BY <1>1, CarefulBefore DEF Steady, Due
<1>3. UNCHANGED archive[p] => (Seen(p, archive) => Seen(p, archive)')
  BY <1>1, Onward DEF Steady, Seen
<1> QED
  BY <1>1, <1>2, <1>3

(* executePull, its first half.                                            *)
LEMMA PullFetchOutcome ==
  ASSUME TypeInv, Changes, [Next]_vars, NEW p \in Paths, PullFetch(p)
  PROVE  Handles(p) /\ Outcome(p)
<1> DEFINE row == archive[p]
           rev == plan[p].rev
           f == Fetched(p, rev)
           pre == IF HasRow(p) THEN local[p] ELSE Absent
<1>1. /\ plan[p].act = "pull" /\ Turn(p) /\ PlanOK
      /\ UNCHANGED <<disk, server, state, pc, target, pruneTo>>
  BY DEF PullFetch, Begins, UnchangedCycle, TypeInv, TypeOK
<1>2. UNCHANGED <<log, archive, local, cursor, pushed, saved>>
  BY <1>1 DEF disk, server, state
<1>3. /\ Steady(p) /\ (Due(p)' => Due(p))
      /\ (Seen(p, archive) => Seen(p, archive)')
  BY <1>1, <1>2, SeenStays
<1>4. local[p] = row.hash /\ RowOK(row) /\ pc = "executing" /\ step.at = "none"
  BY <1>1, TurnGood DEF PlanGood
<1>5. /\ f.rev \in {NoVersion, f.cv}
      /\ Due(p) => f.cv = Tip(p) /\ f.got = TipContent(p) /\ f.got # Absent /\ rev = Tip(p)
  BY <1>1, TurnGood, FetchesTip DEF PlanGood
<1> HIDE DEF f, pre
<1>6. CASE Done(p) /\ ((row.rev # NoVersion /\ row.rev = rev) \/ f.got = Absent)
  <2>1. ASSUME Due(p), row.rev # NoVersion, row.rev = rev
        PROVE  Seen(p, archive)
    <3>1. row # NoRow /\ row.rev = row.cv
      BY <1>4, <2>1 DEF NoRow, RowOK
    <3> QED
      BY <1>5, <2>1, <3>1 DEF Seen, Known
  <2>2. Due(p)' => Seen(p, archive)'
    BY <1>3, <1>5, <1>6, <2>1
  <2>3. Outcome(p)
    BY <1>1, <1>2, <1>4, <1>6, <2>2, EndedWell
  <2> QED
    BY <1>1, <1>2, <1>4, <1>6, <2>3, Ended DEF Handles
<1>7. CASE Continue(FetchStep(p, "pull_check", pre))
  <2>1. /\ step'.at = "pull_check" /\ step'.path = p /\ step'.pre = pre
        /\ step'.got = f.got /\ step'.cv = f.cv /\ step'.rev = f.rev
        /\ UNCHANGED <<plan, failed, troubled>>
    BY <1>7 DEF Continue, FetchStep, f
  <2>2. StepGood'
    BY <1>2, <1>3, <1>5, <2>1 DEF StepGood, Downloading, Steady, pre
  <2>3. Outcome(p)
    BY <1>2, <1>4, <2>1, <2>2, GoesOnWell
  <2> QED
    BY <1>1, <1>2, <1>4, <2>1, <2>3 DEF Handles
<1> QED
  <2>1. \/ /\ Done(p)
           /\ \/ row.rev # NoVersion /\ row.rev = rev
              \/ HasRow(p) /\ local[p] # Absent /\ local[p] # row.hash
              \/ f.got = Absent
        \/ Continue(FetchStep(p, "pull_check", pre))
    BY DEF PullFetch, f, pre
  <2> QED
    BY <1>4, <1>6, <1>7, <2>1

(* executeConflict, its first half.                                        *)
LEMMA ConflictFetchOutcome ==
  ASSUME TypeInv, Changes, [Next]_vars, NEW p \in Paths, ConflictFetch(p)
  PROVE  Handles(p) /\ Outcome(p)
<1> DEFINE f == Fetched(p, plan[p].rev)
<1>1. /\ plan[p].act = "conflict" /\ Turn(p)
      /\ UNCHANGED <<disk, server, state, pc, target, pruneTo>>
  BY DEF ConflictFetch, Begins, UnchangedCycle
<1>2. UNCHANGED <<log, archive, local, copies, cursor, pushed, saved>>
  BY <1>1 DEF disk, server, state
<1>3. Steady(p) /\ (Due(p)' => Due(p))
  BY <1>1, <1>2, SeenStays
<1>4. RowOK(archive[p]) /\ pc = "executing" /\ step.at = "none"
  BY <1>1, TurnGood
<1>5. /\ f.rev \in {NoVersion, f.cv}
      /\ Due(p) => f.cv = Tip(p) /\ f.got = TipContent(p)
  BY <1>1, TurnGood, FetchesTip DEF PlanGood
<1> HIDE DEF f
<1>6. /\ step'.path = p /\ UNCHANGED <<plan, failed, troubled>>
      /\ \/ f.got = Absent /\ step'.at = "conflict_push"
         \/ /\ step'.at = "conflict_compare" /\ step'.got = f.got
            /\ step'.cv = f.cv /\ step'.rev = f.rev
  <2>1. CASE f.got = Absent
    BY <2>1 DEF ConflictFetch, Continue, NoStep, f
  <2>2. CASE f.got # Absent
    BY <2>2 DEF ConflictFetch, Continue, FetchStep, f
  <2> QED
    BY <2>1, <2>2
<1>7. StepGood'
  BY <1>3, <1>5, <1>6 DEF StepGood, Downloading, Steady
<1>8. Outcome(p)
  BY <1>2, <1>4, <1>6, <1>7, GoesOnWell
<1> QED
  BY <1>1, <1>2, <1>4, <1>6, <1>8 DEF Handles

(* DeleteLocal.                                                            *)
LEMMA DeleteLocalOutcome ==
  ASSUME TypeInv, Changes, [Next]_vars, NEW p \in Paths, DeleteLocal(p)
  PROVE  Handles(p) /\ Outcome(p)
<1>1. /\ plan[p].act = "delete_local" /\ Turn(p) /\ Done(p) /\ PlanOK
      /\ UNCHANGED <<copies, saved, server, cursor, pushed, pc, target, pruneTo>>
      /\ local' = [local EXCEPT ![p] = Absent] /\ archive' = [archive EXCEPT ![p] = NoRow]
  BY DEF DeleteLocal, Begins, UnchangedCycle, TypeInv, TypeOK
<1>2. /\ UNCHANGED log /\ archive'[p] = NoRow
      /\ \A q \in Paths : q # p => UNCHANGED <<archive[q], local[q]>>
  BY <1>1 DEF server, TypeInv, TypeOK, DiskOK, StateOK
<1>3. Steady(p) /\ (Due(p)' => Due(p))
  BY <1>1, <1>2, SeenStays
<1>4. Due(p) => TipContent(p) = Absent
  BY <1>1, TurnGood DEF PlanGood
<1>5. Due(p)' => Seen(p, archive)'
  BY <1>2, <1>3, <1>4 DEF Seen, Known, Steady
<1>6. Outcome(p)
  BY <1>1, <1>2, <1>5, Ended DEF Outcome, RowOK
<1> QED
  BY <1>1, <1>2, <1>6, TurnGood, Ended DEF Handles

(* The end of an upload and of a pull.                                     *)
LEMMA RecordOutcome ==
  ASSUME TypeInv, Changes, [Next]_vars, NEW p, p = step.path, Record
  PROVE  Handles(p) /\ Outcome(p)
<1>1. /\ step.at = "record" /\ pc = "executing" /\ PlanOK
      /\ UNCHANGED <<disk, server, cursor, pushed, pc, target, pruneTo>>
  BY DEF Record, At, UnchangedCycle, TypeInv, TypeOK
<1>2. p \in Paths /\ RowOK(archive[p])
  BY <1>1, AtGood
<1>3. /\ UNCHANGED <<local, saved, log>>
      /\ \A q \in Paths : q # p => UNCHANGED archive[q]
  BY <1>1 DEF Record, disk, server, TypeInv, TypeOK, StateOK
<1>4. Steady(p) /\ (Due(p)' => Due(p))
  BY <1>1, <1>2, <1>3, SeenStays
<1>5. /\ step.rev \in {NoVersion, step.cv}
      /\ Due(p) => step.cv = Tip(p)
  BY <1>1 DEF Changes, StepGood
<1>6. (Done(p) \/ Fail(p)) /\ Outcome(p)
  <2>1. CASE local[p] # Absent
    <3>1. archive'[p] = Row(local[p], step.cv, step.rev) /\ Done(p)
      BY <1>2, <2>1 DEF Record, TypeInv, TypeOK, StateOK
    <3>2. RowOK(archive'[p]) /\ archive'[p] # NoRow /\ archive'[p].cv = step.cv
      BY <1>5, <2>1, <3>1, RowWrittenOK
    <3>3. /\ Due(p) => archive'[p].cv = Tip(p)
          /\ Due(p)' => Seen(p, archive)'
      BY <1>4, <1>5, <3>2 DEF Steady, Seen, Known
    <3> QED
      BY <1>1, <1>2, <3>1, <3>2, <3>3, Ended DEF Outcome
  <2>2. CASE local[p] = Absent
    <3>1. UNCHANGED archive /\ Fail(p)
      BY <2>2 DEF Record
    <3> QED
      BY <1>1, <1>2, <3>1, EndedWell
  <2> QED
    BY <2>1, <2>2
<1>7. Handles(p)
  BY <1>1, <1>2, <1>3, <1>6, Ended DEF Handles
<1> QED
  BY <1>6, <1>7

(* executePull, the second look.                                           *)
LEMMA PullCheckOutcome ==
  ASSUME TypeInv, Changes, [Next]_vars, NEW p, p = step.path, PullCheck
  PROVE  Handles(p) /\ Outcome(p)
<1>1. /\ step.at = "pull_check" /\ pc = "executing"
      /\ UNCHANGED <<disk, server, state, pc, target, pruneTo>>
  BY DEF PullCheck, At, UnchangedCycle
<1>2. p \in Paths /\ RowOK(archive[p])
  BY <1>1, AtGood
<1>3. UNCHANGED <<local, copies, saved, log, archive, cursor, pushed>>
  BY <1>1 DEF disk, server, state
<1>4. Steady(p) /\ (Due(p)' => Due(p))
  BY <1>1, <1>2, <1>3, SeenStays
<1>5. Continue([step EXCEPT !.at = "pull_rename"])
  BY <1>1 DEF PullCheck, Changes, StepGood
<1>6. /\ step'.at = "pull_rename" /\ step'.path = p /\ step'.got = step.got
      /\ step'.cv = step.cv /\ step'.rev = step.rev /\ UNCHANGED <<plan, failed, troubled>>
  BY <1>5 DEF Continue, TypeInv, TypeOK, StepOK, Steps
<1>7. StepGood'
  BY <1>1, <1>4, <1>6 DEF Changes, StepGood, Steady, Downloading
<1>8. Outcome(p)
  BY <1>2, <1>3, <1>6, <1>7, GoesOnWell
<1> QED
  BY <1>1, <1>3, <1>6, <1>8 DEF Handles

(* executePull, the rename.                                                *)
LEMMA PullRenameOutcome ==
  ASSUME TypeInv, Changes, [Next]_vars, NEW p, p = step.path, PullRename
  PROVE  Handles(p) /\ Outcome(p)
<1>1. /\ step.at = "pull_rename" /\ pc = "executing"
      /\ UNCHANGED <<saved, server, state, pc, target, pruneTo>>
      /\ local' = [local EXCEPT ![p] = step.got]
      /\ Continue([step EXCEPT !.at = "record"])
  BY DEF PullRename, At, UnchangedCycle
<1>2. p \in Paths /\ RowOK(archive[p])
  BY <1>1, AtGood
<1>3. /\ UNCHANGED <<saved, log, archive, cursor, pushed>>
      /\ \A q \in Paths : q # p => UNCHANGED local[q]
  BY <1>1 DEF server, state, TypeInv, TypeOK, DiskOK
<1>4. Steady(p) /\ (Due(p)' => Due(p))
  BY <1>1, <1>2, <1>3, SeenStays
<1>5. /\ step'.at = "record" /\ step'.path = p
      /\ step'.cv = step.cv /\ step'.rev = step.rev /\ UNCHANGED <<plan, failed, troubled>>
  BY <1>1 DEF Continue, TypeInv, TypeOK, StepOK, Steps
<1>6. StepGood'
  BY <1>1, <1>4, <1>5 DEF Changes, StepGood, Steady, Downloading
<1>7. Outcome(p)
  BY <1>2, <1>3, <1>5, <1>6, GoesOnWell
<1> QED
  BY <1>1, <1>3, <1>5, <1>7 DEF Handles

(* executeConflict, its second half.                                       *)
LEMMA ConflictCompareOutcome ==
  ASSUME TypeInv, Changes, [Next]_vars, NEW p, p = step.path, ConflictCompare
  PROVE  Handles(p) /\ Outcome(p)
<1>1. /\ step.at = "conflict_compare" /\ pc = "executing" /\ PlanOK /\ step.got # Absent
      /\ UNCHANGED <<local, saved, server, cursor, pushed, pc, target, pruneTo>>
  BY DEF ConflictCompare, At, UnchangedCycle, TypeInv, TypeOK, StepOK, Downloading
<1>2. p \in Paths /\ RowOK(archive[p])
  BY <1>1, AtGood
<1>3. UNCHANGED log /\ \A q \in Paths : q # p => UNCHANGED archive[q]
  BY <1>1 DEF ConflictCompare, server, TypeInv, TypeOK, StateOK
<1>4. Steady(p) /\ (Due(p)' => Due(p))
  BY <1>1, <1>2, <1>3, SeenStays
<1>5. /\ step.rev \in {NoVersion, step.cv}
      /\ Due(p) => step.cv = Tip(p) /\ step.got = TipContent(p)
  BY <1>1 DEF Changes, StepGood, Downloading
<1>6. CASE local[p] = step.got
  <2>1. archive'[p] = Row(local[p], step.cv, step.rev) /\ Done(p)
    BY <1>2, <1>6 DEF ConflictCompare, TypeInv, TypeOK, StateOK
  <2>2. RowOK(archive'[p]) /\ archive'[p] # NoRow /\ archive'[p].cv = step.cv
    BY <1>1, <1>5, <1>6, <2>1, RowWrittenOK
  <2>3. /\ Due(p) => archive'[p].cv = Tip(p)
        /\ Due(p)' => Seen(p, archive)'
    BY <1>4, <1>5, <2>2 DEF Steady, Seen, Known
  <2>4. Outcome(p)
    BY <1>1, <1>2, <2>1, <2>2, <2>3, Ended DEF Outcome
  <2> QED
    BY <1>1, <1>2, <1>3, <2>1, <2>4, Ended DEF Handles
<1>7. CASE local[p] # step.got
  <2>1. /\ copies' = copies \cup {step.got} /\ UNCHANGED <<archive, plan, failed, troubled>>
        /\ step'.at = "conflict_push" /\ step'.path = p
    BY <1>7 DEF ConflictCompare, Continue, NoStep
  <2>2. StepGood'
    BY <1>4, <1>5, <2>1 DEF StepGood, Steady, Downloading
  <2>3. Outcome(p)
    BY <1>2, <2>1, <2>2, GoesOnWell
  <2> QED
    BY <1>1, <1>3, <2>1, <2>3 DEF Handles
<1> QED
  BY <1>6, <1>7

(* An upload, its reply lost or not, and what the server has afterwards.   *)
LEMMA UploadArrives ==
  ASSUME TypeInv, TypeInv', NEW p \in Paths, NEW c \in Nat,
         log' = Append(log, Entry(p, c, TRUE)), Foreign(p) => Allowed(p),
         pushed' = pushed \cup {Len(log')} \/ (UNCHANGED pushed /\ troubled')
  PROVE  /\ Uploads(p) /\ Tip(p)' = Len(log) + 1 /\ TipContent(p)' = c
         /\ Len(log) + 1 # NoVersion
<1>1. Grows(p, c, TRUE) /\ Len(log') = Len(log) + 1
  BY AppendGrows DEF TypeInv, TypeOK
<1>2. Tip(p)' = Len(log') /\ TipContent(p)' = c /\ Len(log) \in Nat
  BY <1>1, GrownTips DEF TypeInv, TypeOK
<1>3. Careful' => Len(log') \in pushed'
  BY DEF Careful
<1>4. Uploads(p)
  BY <1>1, <1>3 DEF Uploads
<1> QED
  BY <1>1, <1>2, <1>4 DEF NoVersion

(* A handler that goes on to record what it uploaded.                      *)
LEMMA UploadGoesOn ==
  ASSUME TypeInv, NEW p \in Paths, NEW v, RowOK(archive[p]), UNCHANGED archive,
         Continue([RecordStep(p) EXCEPT !.cv = v]), Tip(p)' = v
  PROVE  Outcome(p) /\ step'.path = p /\ UNCHANGED <<plan, failed, troubled>>
<1>1. /\ step'.at = "record" /\ step'.path = p /\ step'.cv = v /\ step'.rev = NoVersion
      /\ UNCHANGED <<plan, failed, troubled>>
  BY DEF Continue, RecordStep, NoStep
<1>2. StepGood'
  BY <1>1 DEF StepGood, Downloading
<1> QED
  BY <1>1, <1>2, GoesOnWell

(* The step an upload whose reply arrives goes on to.                      *)
LEMMA RecordStepIs ==
  ASSUME TypeInv, NEW p
  PROVE  RecordStep(p) = [RecordStep(p) EXCEPT !.cv = Len(log) + 1]
BY DEF RecordStep, NoStep

(* A path written by another client since the poll may be overwritten by   *)
(* what has no precondition.                                               *)
LEMMA NotDueAllowed ==
  ASSUME TypeInv, NEW p, Foreign(p), ~Due(p), Unconditional(p)
  PROVE  Allowed(p)
<1>1. Tip(p) \in Nat /\ target \in Nat /\ ~(Tip(p) <= target)
  BY TipIsLatest DEF Due, TypeInv, TypeOK, CycleOK, Version
<1> QED
  BY <1>1 DEF Allowed

(* executePush.                                                            *)
LEMMA PushOutcome ==
  ASSUME TypeInv, TypeInv', Changes, [Next]_vars, NEW p \in Paths,
         PushUpload(p) \/ PushReplyLost(p)
  PROVE  Handles(p) /\ Outcome(p)
<1>1. /\ plan[p].act = "push" /\ Turn(p) /\ PlanOK /\ local[p] \in Nat
      /\ UNCHANGED <<disk, pruned, archive, cursor, pc, target, pruneTo>>
  BY DEF PushUpload, PushReplyLost, Begins, UnchangedCycle, state, TypeInv, TypeOK, DiskOK
<1>2. /\ UNCHANGED <<local, saved, archive>> /\ RowOK(archive[p])
      /\ pc = "executing" /\ step.at = "none"
  BY <1>1, TurnGood DEF disk
<1>5. Foreign(p) /\ Precondition(p) => Allowed(p)
  <2>1. CASE Due(p)
    BY <1>1, <2>1, TurnGood DEF PlanGood, Allowed
  <2>2. CASE Foreign(p) /\ ~Due(p) /\ p \in LargePaths
    BY <2>2, NotDueAllowed DEF Unconditional
  <2>3. CASE Foreign(p) /\ Precondition(p) /\ p \notin LargePaths
    BY <1>2, <2>3 DEF Precondition, Foreign, Allowed, Seen, Known, NoRow, NoVersion
  <2> QED
    BY <2>1, <2>2, <2>3
<1>3. CASE Fail(p) /\ UNCHANGED pushed
  <2>1. \/ UNCHANGED log
        \/ log' = Append(log, Entry(p, local[p], TRUE)) /\ Precondition(p)
    BY DEF PushUpload, PushReplyLost
  <2>2. troubled' /\ Outcome(p)
    BY <1>1, <1>2, <1>3, EndedWell DEF Fail
  <2>3. UNCHANGED log \/ Uploads(p)
    BY <1>1, <1>2, <1>3, <1>5, <2>1, <2>2, UploadArrives
  <2> QED
    BY <1>1, <1>2, <1>3, <2>2, <2>3, Ended DEF Handles
<1>4. CASE ~(Fail(p) /\ UNCHANGED pushed)
  <2>1. /\ log' = Append(log, Entry(p, local[p], TRUE)) /\ pushed' = pushed \cup {Len(log')}
        /\ Continue(RecordStep(p)) /\ Precondition(p)
    BY <1>4 DEF PushUpload, PushReplyLost, state
  <2>2. Uploads(p) /\ Tip(p)' = Len(log) + 1
    BY <1>1, <1>2, <1>5, <2>1, UploadArrives
  <2>3. Outcome(p) /\ step'.path = p /\ UNCHANGED <<plan, failed, troubled>>
    BY <1>2, <2>1, <2>2, RecordStepIs, UploadGoesOn
  <2> QED
    BY <1>1, <1>2, <2>2, <2>3 DEF Handles
<1> QED
  BY <1>3, <1>4

(* DeleteRemote.                                                           *)
LEMMA DeleteRemoteOutcome ==
  ASSUME TypeInv, TypeInv', Changes, [Next]_vars, NEW p \in Paths,
         DeleteRemote(p) \/ DeleteReplyLost(p)
  PROVE  Handles(p) /\ Outcome(p)
<1>1. /\ plan[p].act = "delete_remote" /\ Turn(p) /\ PlanOK /\ Absent \in Nat
      /\ UNCHANGED <<disk, pruned, cursor, pc, target, pruneTo>>
  BY DEF DeleteRemote, DeleteReplyLost, Begins, UnchangedCycle, state, TypeInv, TypeOK, Absent
<1>2. /\ UNCHANGED <<local, saved>> /\ RowOK(archive[p])
      /\ pc = "executing" /\ step.at = "none" /\ (Foreign(p) => Allowed(p))
  <2>1. Foreign(p) => Allowed(p)
    BY <1>1, TurnGood, NotDueAllowed DEF PlanGood, Allowed, Unconditional
  <2> QED
    BY <1>1, <2>1, TurnGood DEF disk
<1>3. CASE Fail(p) /\ UNCHANGED <<pushed, archive>>
  <2>1. UNCHANGED log \/ log' = Append(log, Entry(p, Absent, TRUE))
    BY DEF DeleteRemote, DeleteReplyLost
  <2>2. troubled' /\ Outcome(p)
    BY <1>1, <1>2, <1>3, EndedWell DEF Fail
  <2>3. UNCHANGED log \/ Uploads(p)
    BY <1>1, <1>2, <1>3, <2>1, <2>2, UploadArrives
  <2> QED
    BY <1>1, <1>2, <1>3, <2>2, <2>3, Ended DEF Handles
<1>4. CASE ~(Fail(p) /\ UNCHANGED <<pushed, archive>>)
  <2>1. /\ log' = Append(log, Entry(p, Absent, TRUE)) /\ pushed' = pushed \cup {Len(log')}
        /\ Done(p) /\ archive' = [archive EXCEPT ![p] = NoRow]
    BY <1>4 DEF DeleteRemote, DeleteReplyLost, state
  <2>2. Uploads(p) /\ TipContent(p)' = Absent
    BY <1>1, <1>2, <2>1, UploadArrives
  <2>3. archive'[p] = NoRow /\ \A q \in Paths : q # p => UNCHANGED archive[q]
    BY <2>1 DEF TypeInv, TypeOK, StateOK
  <2>4. Outcome(p)
    BY <1>1, <2>1, <2>2, <2>3, Ended DEF Outcome, RowOK, Seen, Known
  <2> QED
    BY <1>1, <1>2, <2>1, <2>2, <2>3, <2>4, Ended DEF Handles
<1> QED
  BY <1>3, <1>4

(* conflictPushLocal.                                                      *)
LEMMA ConflictPushOutcome ==
  ASSUME TypeInv, TypeInv', Changes, [Next]_vars, NEW p, p = step.path,
         ConflictPush \/ ConflictReplyLost
  PROVE  Handles(p) /\ Outcome(p)
<1>1. /\ step.at = "conflict_push" /\ pc = "executing" /\ PlanOK
      /\ UNCHANGED <<disk, pruned, cursor, pc, target, pruneTo>>
  BY DEF ConflictPush, ConflictReplyLost, At, UnchangedCycle, TypeInv, TypeOK
<1>2. p \in Paths /\ RowOK(archive[p]) /\ UNCHANGED <<local, saved, copies>>
  BY <1>1, AtGood DEF disk
<1>3. Due(p) => TipContent(p) \in copies \cup {Absent}
  BY <1>1 DEF Changes, StepGood
<1>4. Foreign(p) => Allowed(p)
  BY <1>1, <1>3, NotDueAllowed DEF Foreign, Seen, Allowed, Unconditional
<1>5. local[p] \in Nat
  BY <1>2 DEF TypeInv, TypeOK, DiskOK
<1>6. CASE ConflictPush /\ local[p] = Absent
  <2>1. archive' = [archive EXCEPT ![p] = NoRow] /\ Done(p) /\ UNCHANGED <<log, pushed>>
    BY <1>6 DEF ConflictPush
  <2>2. archive'[p] = NoRow /\ \A q \in Paths : q # p => UNCHANGED archive[q]
    BY <1>2, <2>1 DEF TypeInv, TypeOK, StateOK
  <2>3. Steady(p) /\ (Due(p)' => Due(p))
    BY <1>1, <1>2, <2>1, SeenStays
  <2>4. Due(p)' => Seen(p, archive)'
    BY <1>2, <1>3, <2>2, <2>3 DEF Seen, Known, Steady
  <2>5. Outcome(p)
    BY <1>1, <1>2, <2>1, <2>2, <2>4, Ended DEF Outcome, RowOK
  <2> QED
    BY <1>1, <1>2, <2>1, <2>2, <2>5, Ended DEF Handles
<1>7. ASSUME UNCHANGED archive, Uploads(p), Tip(p)' = Len(log'),
             Continue([RecordStep(p) EXCEPT !.cv = Len(log')])
      PROVE  Handles(p) /\ Outcome(p)
  <2>1. Outcome(p) /\ step'.path = p /\ UNCHANGED <<plan, failed, troubled>>
    BY <1>2, <1>7, UploadGoesOn
  <2> QED
    BY <1>1, <1>2, <1>7, <2>1 DEF Handles
<1>8. CASE ConflictPush /\ local[p] # Absent
  <2>1. /\ log' = Append(log, Entry(p, local[p], TRUE)) /\ pushed' = pushed \cup {Len(log')}
        /\ Continue(RecordStep(p)) /\ UNCHANGED archive
    BY <1>8 DEF ConflictPush
  <2>2. Len(log') = Len(log) + 1
    BY <1>2, <1>5, <2>1, AppendGrows DEF TypeInv, TypeOK
  <2>3. Uploads(p) /\ Tip(p)' = Len(log) + 1
    BY <1>2, <1>4, <1>5, <2>1, UploadArrives
  <2> QED
    BY <1>7, <2>1, <2>2, <2>3, RecordStepIs
<1>9. CASE ConflictReplyLost
  <2>1. UNCHANGED archive
    BY <1>9 DEF ConflictReplyLost
  <2>2. CASE log' = Append(log, Entry(p, local[p], TRUE)) /\ UNCHANGED pushed /\ Fail(p)
    <3>1. troubled' /\ Outcome(p)
      BY <1>1, <1>2, <2>1, <2>2, EndedWell DEF Fail
    <3>2. Uploads(p)
      BY <1>2, <1>4, <1>5, <2>2, <3>1, UploadArrives
    <3> QED
      BY <1>1, <1>2, <2>1, <2>2, <3>1, <3>2, Ended DEF Handles
  <2>3. CASE /\ AppendsTwice(p, local[p]) /\ pushed' = pushed \cup {Len(log')}
             /\ Continue([RecordStep(p) EXCEPT !.cv = Len(log')])
    <3>1. /\ Grows(p, local[p], TRUE) /\ Len(log') = Len(log) + 2
          /\ Len(log) + 1 \in DOMAIN log' /\ Len(log) + 2 \in DOMAIN log'
      BY <1>2, <1>5, <2>3, AppendTwiceGrows DEF TypeInv, TypeOK
    <3>2. Tip(p)' = Len(log') /\ Len(log) \in Nat
      BY <1>2, <1>5, <3>1, GrownTips DEF TypeInv, TypeOK
    <3>3. ~Careful'
      <4>1. MaxFaults # 0
        BY <1>9, BoundsAssumption
        DEF ConflictReplyLost, MayFault, TypeInv, TypeOK, BookkeepingOK, Counters
      <4>2. /\ Len(log) + 1 > Len(log) /\ Len(log) + 2 > Len(log)
            /\ Len(log) + 2 = (Len(log) + 1) + 1
        BY <3>2
      <4>3. /\ log'[Len(log) + 1] = Entry(p, local[p], TRUE)
            /\ log'[Len(log) + 2] = Entry(p, local[p], TRUE)
            /\ Entry(p, local[p], TRUE).own
        BY <3>1, <4>2 DEF Entry, Grows
      <4>4. SentTwice'
        BY <3>1, <4>2, <4>3 DEF SentTwice
      <4> QED
        BY <4>1, <4>4 DEF Careful, SentOnce
    <3>4. Uploads(p)
      BY <1>4, <1>5, <2>3, <3>1, <3>3 DEF Uploads
    <3> QED
      BY <1>7, <2>1, <2>3, <3>2, <3>4
  <2> QED
    BY <1>9, <2>2, <2>3 DEF ConflictReplyLost, AppendsTwice
<1> QED
  BY <1>6, <1>8, <1>9

(* A failed request.                                                       *)
LEMMA RequestFailsOutcome ==
  ASSUME TypeInv, Changes, [Next]_vars, RequestFails
  PROVE  \E p \in Paths : Handles(p) /\ Outcome(p)
<1>1. UNCHANGED <<disk, server, state, pc, target, pruneTo>> /\ PlanOK
  BY DEF RequestFails, UnchangedCycle, TypeInv, TypeOK
<1>2. UNCHANGED <<local, saved, log, archive, cursor, pushed>>
  BY <1>1 DEF disk, server, state
<1>3. PICK p \in Paths : /\ Fail(p) /\ RowOK(archive[p]) /\ pc = "executing"
                         /\ step.at = "none" \/ step.path = p
  <2>1. CASE \E p \in Paths : Turn(p) /\ Fail(p)
    BY <2>1, TurnGood
  <2>2. CASE At("conflict_push") /\ Fail(step.path)
    BY <2>2, AtGood DEF At
  <2> QED
    BY <2>1, <2>2 DEF RequestFails
<1>4. Outcome(p)
  BY <1>1, <1>2, <1>3, EndedWell
<1>5. Handles(p)
  BY <1>1, <1>2, <1>3, Ended DEF Handles
<1> QED
  BY <1>4, <1>5

(* Every handler, whatever its request comes to.                           *)
LEMMA HandlerOutcome ==
  ASSUME TypeInv, TypeInv', Changes, [Next]_vars,
         Handlers \/ RequestFails \/ ConflictReplyLost
           \/ \E p \in Paths : PushReplyLost(p) \/ DeleteReplyLost(p)
  PROVE  \E p \in Paths : Handles(p) /\ Outcome(p)
<1>1. PICK at : at = step.path
  OBVIOUS
<1>2. CASE Record \/ PullCheck \/ PullRename \/ ConflictCompare \/ ConflictPush \/ ConflictReplyLost
  <2>1. at \in Paths
    <3>1. step.at # "none"
      BY <1>2 DEF Record, PullCheck, PullRename, ConflictCompare, ConflictPush,
                  ConflictReplyLost, At
    <3> QED
      BY <1>1, <3>1, AtGood
  <2> QED
    BY <1>1, <1>2, <2>1, RecordOutcome, PullCheckOutcome, PullRenameOutcome,
       ConflictCompareOutcome, ConflictPushOutcome
<1> QED
  BY <1>2, PushOutcome, PullFetchOutcome, DeleteLocalOutcome, DeleteRemoteOutcome,
     ConflictFetchOutcome, RequestFailsOutcome DEF Handlers

-----------------------------------------------------------------------------
(* What follows. *)

(* At the start there is nothing to miss.                                  *)
LEMMA InitChanges == Init => Changes
<1> SUFFICES ASSUME Init PROVE Changes
  OBVIOUS
<1>1. /\ saved.archive = [p \in Paths |-> NoRow] /\ saved.cursor = NoCursor /\ saved.pushed = {}
      /\ Memory.archive = [p \in Paths |-> NoRow] /\ Memory.cursor = NoCursor
      /\ Memory.pushed = {} /\ Len(log) = 0
  BY DEF Init, Memory
<1>2. Good(saved) /\ Good(Memory)
  BY <1>1 DEF Good, Sound, Covered, NewsFirst, RowOK, NoCursor
<1>3. Phases /\ Executing /\ StepGood
  BY DEF Init, Phases, Executing, StepGood, NoStep, Downloading
<1> QED
  BY <1>2, <1>3 DEF Changes, Good

(* No step misses a change of another client, or makes a plan that would.  *)
THEOREM ChangesInvariant ==
  ASSUME UserMidCycle = FALSE
  PROVE  Spec => []Changes
<1>1. TypeInv /\ TypeInv' /\ Truth /\ EditInv /\ Changes /\ [Next]_vars => Changes'
  <2> SUFFICES ASSUME TypeInv, TypeInv', Truth, EditInv, Changes, [Next]_vars
               PROVE  Changes'
    OBVIOUS
  <2>1. BusyExecutes
    BY DEF Truth
  <2>2. CASE UNCHANGED vars
    <3>1. UNCHANGED <<local, copies, saved, log, state, cycle>>
      BY <2>2 DEF vars, disk, server
    <3> QED
      BY <3>1, NothingHappens
  <2>3. CASE Handlers \/ RequestFails \/ ConflictReplyLost
               \/ \E p \in Paths : PushReplyLost(p) \/ DeleteReplyLost(p)
    BY <2>3, HandlerOutcome, HandledGood
  <2> QED
    BY <2>1, <2>2, <2>3, EnvironmentKeepsChanges, PlanningKeepsChanges,
       EndingKeepsChanges DEF Next, Cycle, Faults
<1> QED
  BY InitChanges, <1>1, TypeInvariant, TruthInvariant, EditInvariant, PTL DEF Spec

(* runner.go: as long as nobody writes while a cycle runs, no change of    *)
(* another client falls behind the cursor unseen, through crashes, expired *)
(* cursors, failed polls and failed saves; until a plan ends in an error,  *)
(* or an upload was, unknown to the client, sent and applied twice.        *)
THEOREM ChangesSeen ==
  ASSUME UserMidCycle = FALSE, RemoteMidCycle = FALSE
  PROVE  Spec => [](SentOnce => NoMissedRemoteChange)
<1>1. TypeInv /\ Changes /\ SentOnce => NoMissedRemoteChange
  <2> SUFFICES ASSUME TypeInv, Changes, Careful, Quiet, cursor # NoCursor,
                      NEW p \in Paths, Behind(p)
               PROVE  Event(p) # NoVersion \/ TipContent(p) \in copies
    BY DEF Careful, NoMissedRemoteChange
  <2>1. Good(Memory) /\ Relevant(p)
    BY DEF Changes, Quiet, Relevant
  <2> QED
    BY <2>1, PollNews DEF Seen, Known, Behind, HasRow
<1> QED
  BY <1>1, TypeInvariant, ChangesInvariant, PTL

(* Without lost replies no upload is sent twice.                           *)
COROLLARY NoneMissed ==
  ASSUME UserMidCycle = FALSE, RemoteMidCycle = FALSE, MaxFaults = 0
  PROVE  Spec => []NoMissedRemoteChange
<1>1. SentOnce
  BY DEF SentOnce
<1>2. (SentOnce => NoMissedRemoteChange) => NoMissedRemoteChange
  BY <1>1
<1> QED
  BY <1>2, ChangesSeen, PTL

(* Steps that are no handlers upload nothing, and write rows only between  *)
(* two cycles.                                                             *)
LEMMA OnlyHandlersWrite ==
  ASSUME TypeInv, [Next]_vars,
         ~(Handlers \/ RequestFails \/ ConflictReplyLost
             \/ \E p \in Paths : PushReplyLost(p) \/ DeleteReplyLost(p))
  PROVE  /\ UNCHANGED log \/ \E p \in Paths, c \in Nat : Grows(p, c, FALSE)
         /\ pc = "executing" /\ pc' = "executing" => UNCHANGED archive
<1>1. CASE Environment
  <2>1. FreshContent \in Nat /\ Absent \in Nat /\ ServerOK
    BY DEF TypeInv, TypeOK, BookkeepingOK, Counters, FreshContent, Absent
  <2>2. UNCHANGED log \/ \E p \in Paths, c \in Nat : log' = Append(log, Entry(p, c, FALSE))
    BY <1>1, <2>1 DEF Environment, UserWrite, UserDelete, UserTurn, RemotePut, RemoteDelete,
                      PruneRevision, server
  <2>3. UNCHANGED archive
    BY <1>1 DEF Environment, UserWrite, UserDelete, UserTurn, RemotePut, RemoteDelete,
                RemoteTurn, PruneRevision, state
  <2> QED
    BY <2>1, <2>2, <2>3, AppendGrows
<1>2. CASE Walk \/ Poll \/ Bootstrap \/ PollFails \/ PollCursorGone
  <2>1. UNCHANGED log /\ pc # "executing"
    BY <1>2 DEF Walk, Poll, Bootstrap, PollFails, PollCursorGone, Quiet, server
  <2> QED
    BY <2>1
<1>3. CASE Finish \/ SaveFails \/ Crash
  <2>1. UNCHANGED log /\ pc' # "executing"
    BY <1>3 DEF Finish, SaveFails, Crash, Reload, Abandon, Leave, server
  <2> QED
    BY <2>1
<1>4. CASE UNCHANGED vars
  BY <1>4 DEF vars, server, state
<1> QED
  BY <1>1, <1>2, <1>3, <1>4 DEF Next, Cycle, Faults

(* docs/overview.md, "Concurrent push overwrites": whatever other clients  *)
(* write while a cycle runs, an upload or a delete of this one replaces no *)
(* version of theirs that is neither recorded nor kept in a conflict copy, *)
(* but one that arrived after the poll, by a request that carries no       *)
(* precondition; whichever requests and replies are lost and wherever the  *)
(* process crashes, as long as the user keeps still while a cycle runs.    *)
THEOREM NothingOverwrittenBlindly ==
  ASSUME UserMidCycle = FALSE
  PROVE  Spec => NoBlindOverwrite
<1> DEFINE Sighted ==
             \A p \in Paths :
               Replaces(p) => \/ Noticed(p)
                              \/ Tip(p) > target /\ Unconditional(p)
<1>1. TypeInv /\ TypeInv' /\ Changes /\ [Next]_vars => [Sighted]_vars
  <2> SUFFICES ASSUME TypeInv, TypeInv', Changes, [Next]_vars, NEW p \in Paths, Replaces(p)
               PROVE  Noticed(p) \/ (Tip(p) > target /\ Unconditional(p))
    OBVIOUS
  <2>1. Foreign(p) /\ ~Steady(p) /\ log'[Tip(p)'].own /\ ServerOK /\ ServerOK'
    BY DEF Replaces, Foreign, Steady, TypeInv, TypeOK
  <2>2. ASSUME NEW q \in Paths, Handles(q)
        PROVE  Noticed(p) \/ (Tip(p) > target /\ Unconditional(p))
    <3>1. CASE UNCHANGED log
      BY <2>1, <3>1, SeenStays
    <3>2. CASE Uploads(q)
      <4>1. PICK c \in Nat : Grows(q, c, TRUE)
        BY <3>2 DEF Uploads
      <4>2. q = p
        BY <2>1, <4>1, GrownTips
      <4>3. Allowed(p)
        BY <2>1, <3>2, <4>2 DEF Uploads
      <4> QED
        BY <2>1, <4>3 DEF Allowed, Seen, Known, Noticed, Foreign
    <3> QED
      BY <2>2, <3>1, <3>2 DEF Handles
  <2>3. ASSUME NEW q \in Paths, NEW c \in Nat, Grows(q, c, FALSE)
        PROVE  FALSE
    <3>1. q = p
      BY <2>1, <2>3, GrownTips
    <3> QED
      BY <2>1, <2>3, <3>1, GrownTips
  <2>4. ~UNCHANGED log
    BY <2>1, SeenStays
  <2> QED
    BY <2>2, <2>3, <2>4, HandlerOutcome, OnlyHandlersWrite
<1> QED
  BY <1>1, TypeInvariant, ChangesInvariant, PTL DEF Spec, NoBlindOverwrite

(* executor.go, RecordFile: as long as nobody writes while a cycle runs, a *)
(* row is never replaced by one of an older version while plans execute;   *)
(* until a plan ends in an error, or an upload was sent and applied twice. *)
THEOREM RowsMoveForward ==
  ASSUME UserMidCycle = FALSE, RemoteMidCycle = FALSE
  PROVE  Spec => [][pc = "executing" /\ pc' = "executing" /\ Careful =>
                      \A p \in Paths : archive[p] # NoRow /\ archive'[p] # NoRow
                                         => archive'[p].cv >= archive[p].cv]_vars
<1> DEFINE Forward == pc = "executing" /\ pc' = "executing" /\ Careful =>
                        \A p \in Paths : archive[p] # NoRow /\ archive'[p] # NoRow
                                           => archive'[p].cv >= archive[p].cv
<1>1. TypeInv /\ TypeInv' /\ Truth /\ Changes /\ [Next]_vars => [Forward]_vars
  <2> SUFFICES ASSUME TypeInv, TypeInv', Truth, Changes, [Next]_vars,
                      pc = "executing", pc' = "executing", Careful,
                      NEW p \in Paths, archive[p] # NoRow, archive'[p] # NoRow
               PROVE  archive'[p].cv >= archive[p].cv
    OBVIOUS
  <2>1. archive[p].cv \in Nat
    BY DEF TypeInv, TypeOK, StateOK, Rows, Version
  <2>2. CASE UNCHANGED archive[p]
    BY <2>1, <2>2
  <2>3. CASE ~UNCHANGED archive[p]
    <3>1. PICK q \in Paths : Handles(q) /\ Outcome(q)
      BY <2>3, HandlerOutcome, OnlyHandlersWrite
    <3>2. p = q
      BY <2>3, <3>1 DEF Handles
    <3>3. archive'[p].cv = Tip(p)
      BY <2>3, <3>1, <3>2 DEF Outcome, Due
    <3>4. archive[p].cv \in Entries(p)
      BY DEF Truth, ArchiveTruthful, RowsTruthful
    <3>5. archive[p].cv <= Tip(p) /\ Tip(p) \in Nat
      BY <3>4, TipIsLatest DEF TypeInv, TypeOK
    <3> QED
      BY <2>1, <3>3, <3>5
  <2> QED
    BY <2>2, <2>3
<1> QED
  BY <1>1, TypeInvariant, TruthInvariant, ChangesInvariant, PTL DEF Spec

(* Without lost replies no upload is sent twice.                           *)
COROLLARY PullsForward ==
  ASSUME UserMidCycle = FALSE, RemoteMidCycle = FALSE, MaxFaults = 0
  PROVE  Spec => PullsMoveForward
<1> DEFINE Rise == \A p \in Paths : archive[p] # NoRow /\ archive'[p] # NoRow
                                     => archive'[p].cv >= archive[p].cv
           Wide == pc = "executing" /\ pc' = "executing" /\ Careful => Rise
           Narrow == pc = "executing" /\ pc' = "executing" /\ ~troubled => Rise
<1>1. [Wide]_vars => [Narrow]_vars
  BY DEF Careful, SentOnce
<1> QED
  BY <1>1, RowsMoveForward, PTL DEF PullsMoveForward

=============================================================================
