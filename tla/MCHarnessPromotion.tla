-------------------------- MODULE MCHarnessPromotion --------------------------
(* Two candidates for the same file of a component and one for another file.   *)
EXTENDS HarnessPromotion, TLC

CONSTANTS p1, p2, p3, prompt, rule, desk, lab

MCAsset == [p \in Proposals |-> IF p = p3 THEN rule ELSE prompt]

(* Two processes accept; one of them also rejects and rolls back, and may fail *)
(* or be killed, the other validates, edits and monitors.                      *)
TwoDuties == desk :> {"accept", "reject", "rollback", "fail"}
          @@ lab :> {"validate", "edit", "accept", "monitor"}
(* Both candidates for the prompt are eligible and nothing else names them.    *)
Candidates == Permutations({p1, p2})

OneDuty == desk :> {"validate", "accept"}
================================================================================
