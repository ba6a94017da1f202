---------------------------- MODULE HarnessRegistry ----------------------------
(* HarnessEvolutionRegistry (control_plane/registry.py): candidates, their     *)
(* evaluations, the active pointer of every promotion key and the history that *)
(* rollback reads. Every operation is one step: _mutate reads, changes and     *)
(* replaces registry.json under its file lock, and a raise writes nothing.     *)
EXTENDS Naturals, Sequences

CONSTANTS Candidates,  \* candidate ids
          Versions,    \* component versions
          Keys,        \* promotion keys: component, executor profile, task family
          Key, Base, Version,   \* [Candidates -> Keys], [Candidates -> Versions]
          Nothing,     \* no pointer, no evaluation, no record
          MaxDepth     \* bound on promotions not rolled back

(* __post_init__: the candidate's version differs from its base.               *)
ASSUME CandidateAssumption ==
  /\ Candidates \cap Versions = {}
  /\ Nothing \notin Candidates \cup Versions
  /\ Key \in [Candidates -> Keys]
  /\ Base \in [Candidates -> Versions] /\ Version \in [Candidates -> Versions]
  /\ \A c \in Candidates : Base[c] # Version[c]

ASSUME DepthAssumption == MaxDepth \in Nat

VARIABLES
  status,    \* [Candidates -> status of the record]
  decision,  \* [Candidates -> decision of the evaluation on file]
  active,    \* [Keys -> pointer]: a candidate, or the version of a rollback target
  previous,  \* [Candidates -> pointer]: "previous" of the last promotion in the
             \* history whose "current" is the candidate, all that rollback reads
  standing   \* [Keys -> Seq(pointer)]: history variable, the pointers a promotion
             \* put in force that no rollback has taken back, over the first base

vars == <<status, decision, active, previous, standing>>

Decisions == {"promote", "reject", "abstain"}
Pointers == Candidates \cup Versions

VersionOf(pointer) == IF pointer \in Candidates THEN Version[pointer] ELSE pointer

Init ==
  /\ status = [c \in Candidates |-> Nothing]
  /\ decision = [c \in Candidates |-> Nothing]
  /\ active = [k \in Keys |-> Nothing]
  /\ previous = [c \in Candidates |-> Nothing]
  /\ standing = [k \in Keys |-> <<>>]

(* register: an id that is on file keeps its record.                           *)
Register(c) ==
  /\ status[c] = Nothing
  /\ status' = [status EXCEPT ![c] = "proposed"]
  /\ UNCHANGED <<decision, active, previous, standing>>

(* Mutant: the decision itself is taken for the status of the record.          *)
RecordEvaluation_RawStatus(c, d) ==
  /\ status[c] # Nothing
  /\ decision' = [decision EXCEPT ![c] = d]
  /\ status' = [status EXCEPT ![c] = d]
  /\ UNCHANGED <<active, previous, standing>>

(* record_evaluation: any registered candidate, whatever its status, also the  *)
(* active one; a later evaluation replaces the one on file.                    *)
RecordEvaluation(c, d) ==
  /\ status[c] # Nothing
  /\ decision' = [decision EXCEPT ![c] = d]
  /\ status' = [status EXCEPT ![c] = IF d = "promote" THEN "approved" ELSE d]
  /\ UNCHANGED <<active, previous, standing>>

(* The pointer a promotion replaces: without one, the evaluation's target.     *)
Replaced(c) == IF active[Key[c]] = Nothing THEN Base[c] ELSE active[Key[c]]

(* Mutant: a candidate that is promoted again keeps its old status.            *)
Activate_KeepsStatus(c) ==
  LET k == Key[c] IN
  /\ active' = [active EXCEPT ![k] = c]
  /\ previous' = [previous EXCEPT ![c] = Replaced(c)]
  /\ standing' = [standing EXCEPT ![k] =
                    Append(IF @ = <<>> THEN <<Replaced(c)>> ELSE @, c)]
  /\ UNCHANGED <<decision, status>>

Activate(c) ==
  LET k == Key[c] IN
  /\ active' = [active EXCEPT ![k] = c]
  /\ previous' = [previous EXCEPT ![c] = Replaced(c)]
  /\ status' = [status EXCEPT ![c] = "active"]
  /\ standing' = [standing EXCEPT ![k] =
                    Append(IF @ = <<>> THEN <<Replaced(c)>> ELSE @, c)]
  /\ UNCHANGED decision

(* Mutant: the version that is active is not compared with the base.           *)
Promote_AnyBase(c) ==
  /\ status[c] # Nothing /\ decision[c] = "promote"
  /\ Len(standing[Key[c]]) < MaxDepth
  /\ Activate(c)

Promote(c) ==
  /\ status[c] # Nothing /\ decision[c] = "promote"
  /\ active[Key[c]] # Nothing => VersionOf(active[Key[c]]) = Base[c]
  /\ Len(standing[Key[c]]) < MaxDepth
  /\ Activate(c)

(* Mutant: the base of the candidate comes back, not the pointer it replaced.  *)
Rollback_ToBase(k) ==
  LET c == active[k] IN
  /\ c \in Candidates
  /\ active' = [active EXCEPT ![k] = Base[c]]
  /\ status' = [status EXCEPT ![c] = "rolled_back"]
  /\ standing' = [standing EXCEPT ![k] = SubSeq(@, 1, Len(@) - 1)]
  /\ UNCHANGED <<decision, previous>>

(* rollback: the active pointer must be a promoted candidate; what its last    *)
(* promotion replaced is in force again.                                       *)
Rollback(k) ==
  LET c == active[k] IN
  /\ c \in Candidates
  /\ active' = [active EXCEPT ![k] = previous[c]]
  /\ status' = [status EXCEPT ![c] = "rolled_back"]
  /\ standing' = [standing EXCEPT ![k] = SubSeq(@, 1, Len(@) - 1)]
  /\ UNCHANGED <<decision, previous>>

Next == \/ \E c \in Candidates : Register(c) \/ Promote(c)
        \/ \E c \in Candidates, d \in Decisions : RecordEvaluation(c, d)
        \/ \E k \in Keys : Rollback(k)

Spec == Init /\ [][Next]_vars
-------------------------------------------------------------------------------
Statuses == {"proposed", "approved", "reject", "abstain", "active", "rolled_back"}

(* TypeOK: records, evaluations, pointers and what stands are of their kind.   *)
TypeOK ==
  /\ status \in [Candidates -> Statuses \cup {Nothing}]
  /\ decision \in [Candidates -> Decisions \cup {Nothing}]
  /\ active \in [Keys -> Pointers \cup {Nothing}]
  /\ previous \in [Candidates -> Pointers \cup {Nothing}]
  /\ standing \in [Keys -> Seq(Pointers)]

Top(s) == s[Len(s)]

(* RollbackRestores: the pointer in force is the one of the last promotion     *)
(* nobody has rolled back: a rollback takes back exactly the promotion that    *)
(* put the active pointer there ("Rollback restores the previous active        *)
(* pointer", docs/V2_P1_FROZEN_BOUNDARY.md).                                   *)
RollbackRestores == \A k \in Keys :
  IF standing[k] = <<>> THEN active[k] = Nothing ELSE active[k] = Top(standing[k])

(* NoRolledBackInForce: no pointer names a candidate that was rolled back and  *)
(* neither evaluated nor promoted again.                                       *)
NoRolledBackInForce == \A k \in Keys :
  active[k] \in Candidates => status[active[k]] # "rolled_back"

(* VersionChain: below every promoted candidate that still stands is the       *)
(* version it was made for, so that undoing promotions one by one never        *)
(* leaves a candidate on a base it was not evaluated against.                  *)
VersionChain == \A k \in Keys : \A i \in 2..Len(standing[k]) :
  VersionOf(standing[k][i - 1]) = Base[standing[k][i]]
================================================================================
