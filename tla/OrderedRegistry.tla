---------------------------- MODULE OrderedRegistry ----------------------------
(* The registry when versions only go up: no chain of candidates leads from a  *)
(* version back to itself. HarnessCandidate does not ask for it, the acceptance *)
(* test (versions "1", "2", "3") lives by it.                                  *)
EXTENDS HarnessRegistry

CONSTANT Rank   \* [Versions -> Nat]

ASSUME OrderedVersions ==
  /\ Rank \in [Versions -> Nat]
  /\ \A c \in Candidates : Rank[Base[c]] < Rank[Version[c]]
================================================================================
