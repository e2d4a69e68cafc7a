------------------------------ MODULE CasePlans ------------------------------
(***************************************************************************)
(* Names that differ only in case or Unicode form: case.go, and what       *)
(* walk.go does with them.  Fold gives FoldKey's bucket of a path; two     *)
(* paths of one bucket are one file on a case-insensitive file system.     *)
(***************************************************************************)
EXTENDS DirPlans

CONSTANTS
  Fold,             \* FoldKey
  CaseInsensitive   \* IsCaseInsensitiveFS of the sync root

SameFold(p, q) == Fold[p] = Fold[q]
Variants(p, S) == {q \in S \ {p} : SameFold(p, q)}

(* Walk: of the files of one bucket the first is in the result, on any     *)
(* file system.                                                            *)
Walked(files) ==
  Only(files, {p \in Paths(files) :
                 \A q \in Variants(p, Paths(files)) : Precedes(p, q)})

(* DetectMovePairs: a row without a file and a file without a row, of one  *)
(* bucket and one content, when no other pair is possible.                 *)
MovePairs(scan, rows) ==
  LET lost == Paths(rows) \ Paths(scan)
      new == Paths(scan) \ Paths(rows)
  IN  {pair \in lost \X new :
         /\ SameFold(pair[1], pair[2])
         /\ Variants(pair[1], lost) = {} /\ Variants(pair[2], new) = {}
         /\ rows[pair[1]] = scan[pair[2]]}

Renames(pairs) ==
  [q \in {pair[2] : pair \in pairs} |->
     Plan("move", (CHOOSE pair \in pairs : pair[2] = q)[1], NoContent)]
Consumed(pairs) == UNION {{pair[1], pair[2]} : pair \in pairs}

(* MergeCaseOnlyRenames: whatever was planned for the two names gives way. *)
MergeCaseOnlyRenames(plans, scan, rows) ==
  LET pairs == MovePairs(scan, rows)
  IN  Overlaid(Without(plans, Consumed(pairs)), Renames(pairs))

(* Mutant: a plan is not compared with the names that are already here.    *)
Neutralize_PlansOnly(plans, scan, rows) ==
  LET vulnerable == UNION {PlansOf(plans, act) : act \in
                       {"push", "pull", "delete_local", "delete_remote", "conflict"}}
      unsafe(p) == Variants(p, vulnerable) # {}
  IN  IF ~CaseInsensitive THEN plans
      ELSE [p \in Paths(plans) |-> IF p \in vulnerable /\ unsafe(p)
                                   THEN Bare("skip") ELSE plans[p]]

(* NeutralizeLocalRemoteCaseCollisions: two plans for one bucket are both  *)
(* dropped, and so is a plan for a bucket in which another name, on disk   *)
(* or in the archive, is not about to be removed.                          *)
Neutralize(plans, scan, rows) ==
  LET vulnerable == UNION {PlansOf(plans, act) : act \in
                       {"push", "pull", "delete_local", "delete_remote", "conflict"}}
      removed == PlansOf(plans, "delete_local") \cup PlansOf(plans, "delete_remote")
                 \cup {plans[p].from : p \in PlansOf(plans, "move")
                                             \cup PlansOf(plans, "move_apply")}
      existing == Paths(scan) \cup Paths(rows)
      unsafe(p) == \/ Variants(p, vulnerable) # {}
                   \/ Variants(p, existing) \ removed # {}
  IN  IF ~CaseInsensitive THEN plans
      ELSE [p \in Paths(plans) |-> IF p \in vulnerable /\ unsafe(p)
                                   THEN Bare("skip") ELSE plans[p]]
=============================================================================
