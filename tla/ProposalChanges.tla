--------------------------- MODULE ProposalChanges ---------------------------
(* The data of an experience proposal: what its changes do to the files of the *)
(* governed assets under .praxile/ (store/proposals.py).                       *)
EXTENDS Integers, Sequences

CONSTANTS Proposals,   \* proposal ids
          Targets,     \* asset paths under .praxile/
          Changes,     \* [Proposals -> Seq([target, op])], one entry per change
          MaxEdits,    \* bound on the edits of one proposal
          Absent       \* no such file or row

ASSUME ChangesAssumption ==
  Changes \in [Proposals -> Seq([target : Targets, op : {"append", "write", "merge"}])]

ASSUME MaxEditsAssumption == MaxEdits \in Nat

Editions == 0..MaxEdits

(* The content of a file is the sequence of the contributions it holds, Absent *)
(* when there is no file; a contribution is <<proposal, edition, change>>.     *)
Lines(c) == IF c = Absent THEN <<>> ELSE c

Holds(c, item) == \E k \in DOMAIN Lines(c) : Lines(c)[k] = item

(* append adds to the end, write replaces the file, metadata_update sets keys  *)
(* of a sidecar: setting them again changes nothing.                           *)
After(op, before, item) ==
  CASE op = "append" -> Append(Lines(before), item)
    [] op = "write"  -> <<item>>
    [] op = "merge"  -> IF Holds(before, item) THEN before
                                               ELSE Append(Lines(before), item)

(* The changes of edition e of p, every one computed from the files as found.  *)
PlanOf(p, e, found) ==
  [i \in DOMAIN Changes[p] |->
     [target |-> Changes[p][i].target,
      before |-> found[Changes[p][i].target],
      after  |-> After(Changes[p][i].op, found[Changes[p][i].target], <<p, e, i>>)]]

(* What applied_changes records for rollback_proposal.                         *)
Recorded(plan) == [i \in DOMAIN plan |->
                     [target |-> plan[i].target, before |-> plan[i].before]]
================================================================================
