---------------------------- MODULE ProposalLedger ----------------------------
(* What accepting, rejecting and rolling back experience proposals promises,   *)
(* with no journal, lock, index or crash: a proposal is settled once,          *)
(* acceptance changes all of its assets in one step, and a rollback has put    *)
(* every recorded "before" back by the time the proposal is marked.            *)
EXTENDS ProposalChanges

VARIABLES assets,      \* [Targets -> content]: the governed assets
          standing,    \* [Proposals -> open | accepted | rejected | rolled_back]
          recorded     \* [Proposals -> Seq([target, before])]: applied_changes

(* The files once every change of a plan has replaced its target, in order.    *)
Applied(plan, found) ==
  [t \in Targets |->
     LET hits == {i \in DOMAIN plan : plan[i].target = t}
     IN  IF hits = {} THEN found[t]
         ELSE plan[CHOOSE i \in hits : \A j \in hits : j <= i].after]

Init == /\ assets \in [Targets -> {Absent, <<>>}]
        /\ standing = [p \in Proposals |-> "open"]
        /\ recorded = [p \in Proposals |-> <<>>]

Accept(p) ==
  /\ standing[p] = "open"
  /\ standing' = [standing EXCEPT ![p] = "accepted"]
  /\ \E e \in Editions : LET plan == PlanOf(p, e, assets) IN
       /\ assets' = Applied(plan, assets)
       /\ recorded' = [recorded EXCEPT ![p] = Recorded(plan)]

Reject(p) ==
  /\ standing[p] = "open"
  /\ standing' = [standing EXCEPT ![p] = "rejected"]
  /\ UNCHANGED <<assets, recorded>>

(* A rollback puts the recorded contents back one file at a time; one that was *)
(* there before the accept is empty for a moment ...                           *)
Restore(p) ==
  /\ standing[p] = "accepted"
  /\ \E i \in DOMAIN recorded[p] : LET c == recorded[p][i] IN
       \/ assets' = [assets EXCEPT ![c.target] = c.before]
       \/ /\ c.before # Absent
          /\ assets' = [assets EXCEPT ![c.target] = <<>>]
  /\ UNCHANGED <<standing, recorded>>

(* ... and marks the proposal once all of them are back.                       *)
RollBack(p) ==
  /\ standing[p] = "accepted"
  /\ \A i \in DOMAIN recorded[p] :
       assets[recorded[p][i].target] = recorded[p][i].before
  /\ standing' = [standing EXCEPT ![p] = "rolled_back"]
  /\ UNCHANGED <<assets, recorded>>

Next == \E p \in Proposals : Accept(p) \/ Reject(p) \/ Restore(p) \/ RollBack(p)

Spec == Init /\ [][Next]_<<assets, standing, recorded>>
================================================================================
