--------------------------- MODULE MCProposalStore ---------------------------
(* Instances of ProposalStore for TLC: proposals that share a target, and the  *)
(* desks of the reviewers.                                                     *)
EXTENDS ProposalStore, TLC

CONSTANTS p1, p2, memory, skill, a, b

MCChanges == (p1 :> << [target |-> memory, op |-> "append"],
                       [target |-> skill,  op |-> "write"] >>)
          @@ (p2 :> << [target |-> memory, op |-> "append"],
                       [target |-> skill,  op |-> "merge"] >>)

MCOneChange == [p \in {p1} |-> MCChanges[p]]

OneDesk == [q \in Procs |-> Proposals]
TwoDesks == (a :> {p1}) @@ (b :> {p2})
================================================================================
