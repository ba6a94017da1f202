----------------------------- MODULE MCChatBroker -----------------------------
(* Two brokers on one budget that does not cover what both are allowed, two    *)
(* threads on one of them.                                                     *)
EXTENDS ChatBroker, TLC

CONSTANTS executor, judge, c1, c2, c3

MCHome == c1 :> executor @@ c2 :> executor @@ c3 :> judge
MCRole == [b \in {executor, judge} |-> b]
Cost(n) == "calls" :> 1 @@ "output" :> n @@ "bytes" :> 1
MCRequests == {Cost(2)}
MCQuota == "calls" :> 3 @@ "output" :> 5 @@ "bytes" :> 3
MCAllowance == [b \in {executor, judge} |-> "calls" :> 2 @@ "output" :> 4]
================================================================================
