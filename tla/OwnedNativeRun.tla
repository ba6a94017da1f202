----------------------------- MODULE OwnedNativeRun -----------------------------
(* run_owned_native (eval/owned_native_run.py): one execution of a task in a   *)
(* lease of its own, and the claim of the run id it may be called with         *)
(* (eval/native_run_claim.py). Claims of different ids are different files:    *)
(* the processes of Claimed all name the same one.                             *)
EXTENDS HarborLease

CONSTANTS Claimed,   \* processes that give a run_id
          Nobody

ASSUME RunAssumption == Claimed \subseteq Owners /\ Nobody \notin Owners

VARIABLES
  status,    \* [Owners -> report["status"], in memory]
  report,    \* [Owners -> the status in execution.json]
  verified,  \* [Owners -> cleanup_verified in execution.json]
  ran,       \* processes that have called run_adapter
  claim,     \* status of the claim; "absent" when there is no file
  holder     \* whose report it is bound to

runVars == <<status, report, verified, ran, claim, holder>>

(* "delivered": executor_returned, with required_outputs_collected.            *)
Statuses == {"none", "preparing", "running", "executor_returned", "delivered", "failed"}
Executed == {"executor_returned", "delivered"}

RunInit ==
  /\ LeaseInit
  /\ status = [p \in Owners |-> "none"]
  /\ report = [p \in Owners |-> "none"]
  /\ verified = [p \in Owners |-> FALSE]
  /\ ran = {}
  /\ claim = "absent"
  /\ holder = Nobody

Says(p, s) == status' = [status EXCEPT ![p] = s]
Writes(p, s) == report' = [report EXCEPT ![p] = s]

(* Mutant: a claim is taken over as long as no report is bound to it.          *)
Acquire_Unbound(p) ==
  /\ p \in Claimed
  /\ IF holder = Nobody THEN Start(p, "lease") /\ claim' = "claimed"
                        ELSE Start(p, "raised") /\ UNCHANGED claim
  /\ UNCHANGED <<leaseVars, status, report, verified, ran, holder>>

(* acquire: O_EXCL, and the claim is never given back.                         *)
Acquire(p) ==
  /\ p \in Claimed
  /\ IF claim = "absent" THEN Start(p, "lease") /\ claim' = "claimed"
                         ELSE Start(p, "raised") /\ UNCHANGED claim
  /\ UNCHANGED <<leaseVars, status, report, verified, ran, holder>>

(* resume: only a completion whose evidence says so, and not when the plan is  *)
(* another or a byte of the evidence has changed.                              *)
Resume(p) ==
  /\ p \in Claimed
  /\ \/ /\ claim = "completed" /\ report[holder] = "delivered" /\ verified[holder]
        /\ Start(p, "returned")
     \/ Start(p, "raised")
  /\ UNCHANGED <<leaseVars, runVars>>

MakeLease(p) ==
  /\ Create(p)
  /\ Says(p, "preparing")
  /\ Writes(p, "preparing")
  /\ holder' = IF p \in Claimed THEN p ELSE holder
  /\ UNCHANGED <<verified, ran, claim>>

(* Whatever raises before the run is owned: nothing is there yet, or the lease *)
(* is, with the claim bound to its report or not, and that written or not.     *)
MakeLeaseFails(p) ==
  /\ Step(p, "lease", "raised")
  /\ \/ UNCHANGED <<life, lock, holder, report>>
     \/ /\ Becomes(p, "new")
        /\ lock' = [lock EXCEPT ![p] = "owner"]
        /\ \/ UNCHANGED <<holder, report>>
           \/ /\ holder' = IF p \in Claimed THEN p ELSE holder
              /\ Writes(p, "preparing") \/ UNCHANGED report
  /\ UNCHANGED <<phase, env, child, docker, cleaner, receipt>>
  /\ UNCHANGED <<status, verified, ran, claim>>

GoesOn(p) == LeaseGoesOn(p) /\ UNCHANGED runVars

(* An error of cleanup's is raised too, but the report keeps its status.       *)
Fails(p) ==
  /\ LeaseFails(p)
  /\ status' = IF pc[p] \in Closing THEN status ELSE [status EXCEPT ![p] = "failed"]
  /\ UNCHANGED <<report, verified, ran, claim, holder>>

Run(p) ==
  /\ Step(p, "ready", "running")
  /\ Says(p, "running")
  /\ Writes(p, "running")
  /\ ran' = ran \cup {p}
  /\ UNCHANGED <<leaseVars, verified, claim, holder>>

(* A cancellation that reached prepare is raised when it is done; run_adapter  *)
(* turns whatever the worker raises into a cancel.                             *)
Interrupted(p) ==
  /\ Step(p, "ready", "cancel") \/ Step(p, "running", "cancel")
  /\ Becomes(p, "failed")
  /\ Says(p, "failed")
  /\ UNCHANGED <<lock, phase, env, child, docker, cleaner, receipt>>
  /\ UNCHANGED <<report, verified, ran, claim, holder>>

AdapterReturns(p) ==
  /\ \/ Step(p, "running", "collect") /\ Says(p, "executor_returned")
     \/ Step(p, "running", "close") /\ Says(p, "failed")      \* without a trajectory
  /\ UNCHANGED <<leaseVars, report, verified, ran, claim, holder>>

(* collect: outputs that cannot be read are left out; one that takes too long  *)
(* cancels the lease, and outputs after it raise.                              *)
Collect(p) ==
  /\ \/ /\ Step(p, "collect", "close")
        /\ \E s \in Executed : Says(p, s)
        /\ UNCHANGED life
     \/ /\ Step(p, "collect", "cancel")
        /\ \E s \in Executed \cup {"failed"} : Says(p, s)
        /\ Becomes(p, "failed")
  /\ UNCHANGED <<lock, phase, env, child, docker, cleaner, receipt>>
  /\ UNCHANGED <<report, verified, ran, claim, holder>>

(* release: execution.json gets its last contents, whatever cleanup did.       *)
Report(p) ==
  /\ IF life[p] = "closed" /\ status[p] \in Executed
     THEN Step(p, "report", IF p \in Claimed /\ status[p] = "delivered" THEN "seal" ELSE "returned")
     ELSE Step(p, "report", "raised")
  /\ Writes(p, status[p])
  /\ verified' = [verified EXCEPT ![p] = life[p] = "closed"]
  /\ UNCHANGED <<leaseVars, status, ran, claim, holder>>

(* The shared budget cannot be read, or the report not be written: it keeps    *)
(* "preparing" or "running", unless it had been replaced by then.              *)
ReportFails(p) ==
  /\ Step(p, "report", "raised")
  /\ \/ UNCHANGED <<report, verified>>
     \/ /\ Writes(p, status[p])
        /\ verified' = [verified EXCEPT ![p] = life[p] = "closed"]
  /\ UNCHANGED <<leaseVars, status, ran, claim, holder>>

(* complete: the evidence is read again before the claim is rewritten.         *)
Seal(p) ==
  /\ \/ Step(p, "seal", "returned") /\ claim' = "completed"
     \/ Step(p, "seal", "raised") /\ UNCHANGED claim
  /\ UNCHANGED <<leaseVars, status, report, verified, ran, holder>>

Starts(p) == Acquire(p) \/ Resume(p)
Works(p) ==
  \/ MakeLease(p) \/ MakeLeaseFails(p) \/ GoesOn(p) \/ Fails(p) \/ Run(p) \/ Interrupted(p)
  \/ AdapterReturns(p) \/ Collect(p) \/ Report(p) \/ ReportFails(p) \/ Seal(p)
Around(p) == World(p) /\ UNCHANGED runVars
Ends(p) == pc[p] \notin {"idle", "gone"} /\ Gone(p) /\ UNCHANGED runVars

-------------------------------------------------------------------------------
RunTypeOK ==
  /\ LeaseTypeOK
  /\ status \in [Owners -> Statuses]
  /\ report \in [Owners -> Statuses]
  /\ verified \in [Owners -> BOOLEAN]
  /\ ran \subseteq Owners
  /\ claim \in {"absent", "claimed", "completed"}
  /\ holder \in Owners \cup {Nobody}

(* Once a worker has run in an environment, whatever says that it is gone, in  *)
(* ownership.json, in execution.json or in a recovery's receipt, is right and  *)
(* stays so (harbor_lease.py:92-100, lease_recover.py:56). Of an environment   *)
(* that never became ready nothing of the kind is true: the daemon may go on.  *)
CleanedIsGone == \A p \in ran :
  phase[p] = "cleanup_verified" \/ verified[p] \/ receipt[p] = "cleaned" =>
    ~docker[p] /\ ~child[p]

(* A run id is executed at most once, and what a resume returned is that one   *)
(* execution, which delivered its outputs and left nothing in docker           *)
(* (native_run_claim.py:40-44, 68-97).                                           *)
ReuseIsVerified ==
  /\ \A p, q \in ran \cap Claimed : p = q
  /\ \A p \in Claimed \ ran : pc[p] = "returned" =>
       /\ holder \in ran
       /\ report[holder] = "delivered" /\ verified[holder]
       /\ ~docker[holder] /\ ~child[holder]
================================================================================
