------------------------------ MODULE HarborLease ------------------------------
(* HarborDockerLease (eval/harbor_lease.py) with its one generation, the       *)
(* docker resources that carry the generation's session label, and the        *)
(* recovery of what a dead owner left behind (eval/lease_recover.py). A        *)
(* process owns at most one lease, and the lease is named for it.              *)
EXTENDS Integers

CONSTANTS Owners,        \* processes that call run_owned_native
          Recoverable,   \* bound: the leases somebody runs lease_recover on
          Together       \* bound: the sets of processes that may have started

ASSUME LeaseAssumption == Recoverable \subseteq Owners /\ Together \subseteq SUBSET Owners

VARIABLES
  pc,        \* [Owners -> what the process does next]
  life,      \* [Owners -> _state of its lease; "none" before there is one]
  lock,      \* [Owners -> who holds the lease's owner.lock]
  phase,     \* [Owners -> phase of the generation in ownership.json]
  env,       \* [Owners -> _environment is not None]
  child,     \* [Owners -> a "docker compose up" of the session, or what the
             \*  daemon still does of one whose client is gone, is under way]
  docker,    \* [Owners -> resources with the session's label exist]
  cleaner,   \* [Owners -> what a recovery of the lease does next]
  receipt    \* [Owners -> status of the last recovery receipt]

leaseVars == <<life, lock, phase, env, child, docker, cleaner, receipt>>

Pcs == {"idle", "lease", "prepare", "compose", "starting", "ready", "running", "collect",
        "cancel", "cancelling", "close", "closing", "report", "seal",
        "returned", "raised", "ended", "gone"}
Lives == {"none", "new", "preparing", "ready", "failed", "closed"}
Phases == {"none", "starting", "ready", "cleanup_verified"}

LeaseInit ==
  /\ pc = [p \in Owners |-> "idle"]
  /\ life = [p \in Owners |-> "none"]
  /\ lock = [p \in Owners |-> "free"]
  /\ phase = [p \in Owners |-> "none"]
  /\ env = [p \in Owners |-> FALSE]
  /\ child = [p \in Owners |-> FALSE]
  /\ docker = [p \in Owners |-> FALSE]
  /\ cleaner = [p \in Owners |-> "idle"]
  /\ receipt = [p \in Owners |-> "none"]

Goto(p, to) == pc' = [pc EXCEPT ![p] = to]
Step(p, from, to) == pc[p] = from /\ Goto(p, to)
Start(p, to) ==
  /\ Step(p, "idle", to)
  /\ {q \in Owners : pc[q] # "idle"} \cup {p} \in Together
Becomes(p, state) == life' = [life EXCEPT ![p] = state]
Phase(p, name) == phase' = [phase EXCEPT ![p] = name]

(* __init__: a new directory with an owner.lock this process holds.            *)
Create(p) ==
  /\ Step(p, "lease", "prepare")
  /\ Becomes(p, "new")
  /\ lock' = [lock EXCEPT ![p] = "owner"]
  /\ UNCHANGED <<phase, env, child, docker, cleaner, receipt>>

(* Mutant: the session is written down when the environment is ready.          *)
Record_WhenReady(p) ==
  /\ Step(p, "prepare", "compose")
  /\ Becomes(p, "preparing")
  /\ UNCHANGED <<phase, lock, env, child, docker, cleaner, receipt>>

(* _prepare_owned: the session is on file before anything is created.          *)
Record(p) ==
  /\ Step(p, "prepare", "compose")
  /\ Becomes(p, "preparing")
  /\ Phase(p, "starting")
  /\ UNCHANGED <<lock, env, child, docker, cleaner, receipt>>

(* The worker's wheel, the inputs or the daemon are refused, or a directory    *)
(* cannot be made: there is no environment to destroy.                         *)
PrepareFails(p) ==
  /\ \/ Step(p, "prepare", "close") /\ \E s \in {"new", "preparing", "failed"} : Becomes(p, s)
     \/ Step(p, "compose", "close") /\ UNCHANGED life
  /\ UNCHANGED <<lock, phase, env, child, docker, cleaner, receipt>>

Compose(p) ==
  /\ Step(p, "compose", "starting")
  /\ env' = [env EXCEPT ![p] = TRUE]
  /\ child' = [child EXCEPT ![p] = TRUE]
  /\ UNCHANGED <<life, lock, phase, docker, cleaner, receipt>>

(* The child's own steps: they do not end with its parent, nor the daemon's    *)
(* with a client that was killed (eval/owned_docker_environment.py).           *)
Created(p) ==
  /\ child[p]
  /\ docker' = [docker EXCEPT ![p] = TRUE]
  /\ UNCHANGED <<pc, life, lock, phase, env, child, cleaner, receipt>>

ComposeEnds(p) ==
  /\ child[p]
  /\ child' = [child EXCEPT ![p] = FALSE]
  /\ UNCHANGED <<pc, life, lock, phase, env, docker, cleaner, receipt>>

Ready(p) ==
  /\ Step(p, "starting", "ready")
  /\ ~child[p] /\ docker[p]
  /\ Becomes(p, "ready")
  /\ Phase(p, "ready")
  /\ UNCHANGED <<lock, env, child, docker, cleaner, receipt>>

(* start, the preflight or the record raised: failed, and _destroy. A compose  *)
(* that took too long has lost its client, not what the daemon does for it.    *)
StartFails(p) ==
  /\ Step(p, "starting", "cancel")
  /\ Becomes(p, "failed")
  /\ UNCHANGED <<lock, phase, env, child, docker, cleaner, receipt>>

-------------------------------------------------------------------------------
(* _destroy, from cancel (whose caller's error then leads to cleanup) and from *)
(* cleanup, which gives the lock up only when everything is known to be gone.  *)
Cancelling == {"cancel", "cancelling"}
Closing == {"close", "closing"}

Destroyed(p, ok) ==
  IF pc[p] \in Cancelling
  THEN Goto(p, "close") /\ UNCHANGED <<life, lock>>
  ELSE /\ Goto(p, "report")
       /\ Becomes(p, IF ok THEN "closed" ELSE "failed")
       /\ lock' = IF ok THEN [lock EXCEPT ![p] = "free"] ELSE lock

NothingToDestroy(p) ==
  /\ pc[p] \in {"cancel", "close"}
  /\ ~env[p]
  /\ Destroyed(p, TRUE)
  /\ UNCHANGED <<phase, env, child, docker, cleaner, receipt>>

(* Harbor's stop may swallow its errors.                                       *)
StopEnvironment(p) ==
  /\ \/ Step(p, "cancel", "cancelling")
     \/ Step(p, "close", "closing")
  /\ env[p]
  /\ \E left \in {FALSE, docker[p]} : docker' = [docker EXCEPT ![p] = left]
  /\ UNCHANGED <<life, lock, phase, env, child, cleaner, receipt>>

(* Mutant: stop is believed.                                                   *)
Verified_Unlisted(p) ==
  /\ pc[p] \in {"cancelling", "closing"}
  /\ env' = [env EXCEPT ![p] = FALSE]
  /\ Phase(p, "cleanup_verified")
  /\ Destroyed(p, TRUE)
  /\ UNCHANGED <<child, docker, cleaner, receipt>>

Verified(p) ==
  /\ pc[p] \in {"cancelling", "closing"}
  /\ ~docker[p]
  /\ env' = [env EXCEPT ![p] = FALSE]
  /\ Phase(p, "cleanup_verified")
  /\ Destroyed(p, TRUE)
  /\ UNCHANGED <<child, docker, cleaner, receipt>>

(* Another daemon, a docker command that fails, or resources that remain; or   *)
(* nothing does, and ownership.json cannot be written.                         *)
DestroyFails(p) ==
  /\ pc[p] \in Cancelling \cup Closing
  /\ env[p]
  /\ \/ UNCHANGED env
     \/ /\ pc[p] \in {"cancelling", "closing"} /\ ~docker[p]
        /\ env' = [env EXCEPT ![p] = FALSE]
  /\ Destroyed(p, FALSE)
  /\ UNCHANGED <<phase, child, docker, cleaner, receipt>>

-------------------------------------------------------------------------------
(* Mutant: the lock is only compared with the record, not tried.               *)
RecoverLock_Recorded(p) ==
  /\ p \in Recoverable
  /\ cleaner[p] = "idle"
  /\ phase[p] # "none"
  /\ lock' = [lock EXCEPT ![p] = "recovery"]
  /\ cleaner' = [cleaner EXCEPT ![p] = "inspect"]
  /\ receipt' = [receipt EXCEPT ![p] = "cleaning"]
  /\ UNCHANGED <<pc, life, phase, env, child, docker>>

(* recover_lease: the recorded sessions were confirmed, nobody holds the lock. *)
RecoverLock(p) ==
  /\ p \in Recoverable
  /\ cleaner[p] = "idle"
  /\ phase[p] # "none"
  /\ lock[p] = "free"
  /\ lock' = [lock EXCEPT ![p] = "recovery"]
  /\ cleaner' = [cleaner EXCEPT ![p] = "inspect"]
  /\ receipt' = [receipt EXCEPT ![p] = "cleaning"]
  /\ UNCHANGED <<pc, life, phase, env, child, docker>>

RecoverInspect(p) ==
  /\ cleaner[p] = "inspect"
  /\ cleaner' = [cleaner EXCEPT ![p] = IF docker[p] THEN "remove" ELSE "verify"]
  /\ UNCHANGED <<pc, life, lock, phase, env, child, docker, receipt>>

RecoverRemove(p) ==
  /\ cleaner[p] = "remove"
  /\ docker' = [docker EXCEPT ![p] = FALSE]
  /\ cleaner' = [cleaner EXCEPT ![p] = "verify"]
  /\ UNCHANGED <<pc, life, lock, phase, env, child, receipt>>

(* Mutant: what is in the receipt's "removed" is taken for gone.               *)
RecoverVerify_Removed(p) ==
  /\ cleaner[p] \in {"remove", "verify"}
  /\ lock' = [lock EXCEPT ![p] = "free"]
  /\ cleaner' = [cleaner EXCEPT ![p] = "idle"]
  /\ receipt' = [receipt EXCEPT ![p] = "cleaned"]
  /\ UNCHANGED <<pc, life, phase, env, child, docker>>

RecoverVerify(p) ==
  /\ cleaner[p] = "verify"
  /\ ~docker[p]
  /\ lock' = [lock EXCEPT ![p] = "free"]
  /\ cleaner' = [cleaner EXCEPT ![p] = "idle"]
  /\ receipt' = [receipt EXCEPT ![p] = "cleaned"]
  /\ UNCHANGED <<pc, life, phase, env, child, docker>>

(* A docker command fails or resources are left: "failed". A recovery that is  *)
(* killed leaves "cleaning" behind.                                            *)
RecoverStops(p) ==
  /\ cleaner[p] # "idle"
  /\ lock' = [lock EXCEPT ![p] = "free"]
  /\ cleaner' = [cleaner EXCEPT ![p] = "idle"]
  /\ \E s \in {"failed", "cleaning"} : receipt' = [receipt EXCEPT ![p] = s]
  /\ UNCHANGED <<pc, life, phase, env, child, docker>>

(* The kernel gives the owner's lock back when the process is gone.            *)
Gone(p) ==
  /\ Goto(p, "gone")
  /\ lock' = IF lock[p] = "owner" THEN [lock EXCEPT ![p] = "free"] ELSE lock
  /\ UNCHANGED <<life, phase, env, child, docker, cleaner, receipt>>

(* Steps nobody in the owner's process takes.                                  *)
World(p) ==
  \/ Created(p) \/ ComposeEnds(p)
  \/ RecoverLock(p) \/ RecoverInspect(p) \/ RecoverRemove(p) \/ RecoverVerify(p) \/ RecoverStops(p)

(* Steps of the lease with which the run goes on, and those that fail it.      *)
LeaseGoesOn(p) ==
  Record(p) \/ Compose(p) \/ Ready(p) \/ NothingToDestroy(p) \/ StopEnvironment(p) \/ Verified(p)
LeaseFails(p) == PrepareFails(p) \/ StartFails(p) \/ DestroyFails(p)

-------------------------------------------------------------------------------
LeaseTypeOK ==
  /\ pc \in [Owners -> Pcs]
  /\ life \in [Owners -> Lives]
  /\ lock \in [Owners -> {"free", "owner", "recovery"}]
  /\ phase \in [Owners -> Phases]
  /\ env \in [Owners -> BOOLEAN]
  /\ child \in [Owners -> BOOLEAN]
  /\ docker \in [Owners -> BOOLEAN]
  /\ cleaner \in [Owners -> {"idle", "inspect", "remove", "verify"}]
  /\ receipt \in [Owners -> {"none", "cleaning", "cleaned", "failed"}]

(* Whatever exists or may still come into being in docker is in ownership.json *)
(* (harbor_lease.py:135-136), also what the daemon makes after the owner has   *)
(* found nothing, and when its owner is dead or has taken the lease for closed *)
(* nothing but another recovery keeps a recovery from it (lease_recover.py:25).*)
Traceable == \A p \in Owners :
  docker[p] \/ child[p] =>
    /\ phase[p] # "none"
    /\ (pc[p] = "gone" \/ life[p] = "closed") => lock[p] # "owner"

(* While the worker runs in it an environment exists, whatever recoveries are  *)
(* started: they never remove what a live owner uses (lease_recover.py:25).    *)
RunningHasContainer == \A p \in Owners :
  pc[p] \in {"ready", "running", "collect"} => docker[p] /\ lock[p] = "owner"
================================================================================
