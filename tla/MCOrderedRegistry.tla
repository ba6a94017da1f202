--------------------------- MODULE MCOrderedRegistry ---------------------------
EXTENDS OrderedRegistry, TLC

CONSTANTS c1, c2, c3, c4, c5, k1, k2, v1, v2, v3

(* Two rival candidates for v1, two steps from v1 to v3, and one of another key. *)
MCKey == [c \in {c1, c2, c3, c4, c5} |-> IF c = c5 THEN k2 ELSE k1]
MCBase == c1 :> v1 @@ c2 :> v1 @@ c3 :> v2 @@ c4 :> v1 @@ c5 :> v1
MCVersion == c1 :> v2 @@ c2 :> v2 @@ c3 :> v3 @@ c4 :> v3 @@ c5 :> v2
MCRank == v1 :> 1 @@ v2 :> 2 @@ v3 :> 3
================================================================================
