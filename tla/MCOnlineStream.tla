---------------------------- MODULE MCOnlineStream ----------------------------
(* A stream of three tasks with three runners, or two processes that share a   *)
(* run id.                                                                     *)
EXTENDS OnlineStream

CONSTANTS s1, s2, s3, c1, c2, cand1, cand2

MCLearned == [c \in Candidates |-> IF c = cand2 THEN 2 ELSE 1]

(* Runners of one kind are alike: they start in this order.                    *)
MCTogether == {{s1}, {s1, s2}, {s1, s2, s3}, {c1}, {c1, c2}}
================================================================================
