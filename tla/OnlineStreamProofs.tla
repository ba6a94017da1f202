-------------------------- MODULE OnlineStreamProofs --------------------------
(* Theorems of OnlineStream and of the leases and runs below it, for any       *)
(* number of processes, tasks, candidates and approvals.                       *)
EXTENDS OnlineStream, TLAPS

USE LeaseAssumption, RunAssumption, StreamAssumption

(* Where a lease is, by what its process does next; what its lock, its record  *)
(* and the resources in docker then are.                                       *)
Lease(p) ==
  /\ pc[p] \in {"idle", "lease"} => life[p] = "none"
  /\ life[p] = "none" =>
       phase[p] = "none" /\ pc[p] \in {"idle", "lease", "returned", "raised", "ended", "gone"}
  /\ pc[p] = "prepare" => phase[p] = "none" /\ life[p] = "new"
  /\ pc[p] = "compose" => phase[p] = "starting" /\ life[p] = "preparing" /\ ~env[p]
  /\ pc[p] = "starting" => phase[p] = "starting" /\ life[p] = "preparing" /\ env[p]
  /\ pc[p] \in {"ready", "running", "collect"} =>
       life[p] = "ready" /\ env[p] /\ docker[p] /\ ~child[p]
  /\ life[p] = "closed" =>
       ~env[p] /\ pc[p] \in {"report", "seal", "returned", "raised", "ended", "gone"}

Guarded(p) ==
  /\ lock[p] = "owner" <=> life[p] \notin {"none", "closed"} /\ pc[p] # "gone"
  /\ lock[p] = "recovery" <=> cleaner[p] # "idle"
  /\ receipt[p] # "none" \/ cleaner[p] # "idle" => life[p] = "closed" \/ pc[p] = "gone"

Resources(p) ==
  /\ env[p] => phase[p] \in {"starting", "ready"}
  /\ docker[p] \/ child[p] => phase[p] # "none"

LeaseInv == \A p \in Owners : Lease(p) /\ Guarded(p) /\ Resources(p)

-------------------------------------------------------------------------------
(* The lease's own steps.                                                      *)

LEMMA PreparingLease ==
  ASSUME LeaseTypeOK, LeaseInv, NEW p \in Owners,
         Create(p) \/ Record(p) \/ PrepareFails(p) \/ Compose(p) \/ Ready(p) \/ StartFails(p)
  PROVE  LeaseInv'
<1>1. CASE Create(p)
  BY <1>1 DEF LeaseTypeOK, LeaseInv, Lease, Guarded, Resources, Create, Step, Goto, Becomes
<1>2. CASE Record(p)
  BY <1>2 DEF LeaseTypeOK, LeaseInv, Lease, Guarded, Resources, Record, Step, Goto, Becomes, Phase
<1>3. CASE PrepareFails(p)
  BY <1>3 DEF LeaseTypeOK, LeaseInv, Lease, Guarded, Resources, PrepareFails, Step, Goto, Becomes
<1>4. CASE Compose(p)
  BY <1>4 DEF LeaseTypeOK, LeaseInv, Lease, Guarded, Resources, Compose, Step, Goto, Becomes
<1>5. CASE Ready(p)
  BY <1>5 DEF LeaseTypeOK, LeaseInv, Lease, Guarded, Resources, Ready, Step, Goto, Becomes, Phase
<1>6. CASE StartFails(p)
  BY <1>6 DEF LeaseTypeOK, LeaseInv, Lease, Guarded, Resources, StartFails, Step, Goto, Becomes
<1> QED
  BY <1>1, <1>2, <1>3, <1>4, <1>5, <1>6

LEMMA DestroyLease ==
  ASSUME LeaseTypeOK, LeaseInv, NEW p \in Owners,
         NothingToDestroy(p) \/ StopEnvironment(p) \/ Verified(p) \/ DestroyFails(p)
  PROVE  LeaseInv'
<1> USE DEF Cancelling, Closing
<1>1. CASE NothingToDestroy(p)
  BY <1>1 DEF LeaseTypeOK, LeaseInv, Lease, Guarded, Resources, NothingToDestroy, Destroyed, Goto, Becomes
<1>2. CASE StopEnvironment(p)
  BY <1>2 DEF LeaseTypeOK, LeaseInv, Lease, Guarded, Resources, StopEnvironment, Step, Goto
<1>3. CASE Verified(p)
  BY <1>3 DEF LeaseTypeOK, LeaseInv, Lease, Guarded, Resources, Verified, Destroyed, Goto, Becomes, Phase
<1>4. CASE DestroyFails(p)
  BY <1>4 DEF LeaseTypeOK, LeaseInv, Lease, Guarded, Resources, DestroyFails, Destroyed, Goto, Becomes
<1> QED
  BY <1>1, <1>2, <1>3, <1>4

LEMMA WorldLease ==
  ASSUME LeaseTypeOK, LeaseInv, NEW p \in Owners, World(p)
  PROVE  LeaseInv'
<1>1. CASE Created(p) \/ ComposeEnds(p)
  BY <1>1 DEF LeaseTypeOK, LeaseInv, Lease, Guarded, Resources, Created, ComposeEnds
<1>2. CASE RecoverLock(p)
  BY <1>2 DEF LeaseTypeOK, LeaseInv, Lease, Guarded, Resources, RecoverLock
<1>3. CASE RecoverInspect(p)
  BY <1>3 DEF LeaseTypeOK, LeaseInv, Lease, Guarded, Resources, RecoverInspect
<1>4. CASE RecoverRemove(p)
  BY <1>4 DEF LeaseTypeOK, LeaseInv, Lease, Guarded, Resources, RecoverRemove
<1>5. CASE RecoverVerify(p)
  BY <1>5 DEF LeaseTypeOK, LeaseInv, Lease, Guarded, Resources, RecoverVerify
<1>6. CASE RecoverStops(p)
  BY <1>6 DEF LeaseTypeOK, LeaseInv, Lease, Guarded, Resources, RecoverStops
<1> QED
  BY <1>1, <1>2, <1>3, <1>4, <1>5, <1>6 DEF World

LEMMA GoneLease ==
  ASSUME LeaseTypeOK, LeaseInv, NEW p \in Owners, pc[p] # "idle", Gone(p)
  PROVE  LeaseInv'
  BY DEF LeaseTypeOK, LeaseInv, Lease, Guarded, Resources, Gone, Goto

(* Any other step of the process: where it can lead, for the lease.            *)
MovedOn(p) ==
  /\ UNCHANGED leaseVars
  /\ pc' \in [Owners -> Pcs] /\ \A q \in Owners \ {p} : pc'[q] = pc[q]
  /\ \/ pc[p] = "idle" /\ pc'[p] \in {"lease", "returned", "raised", "ended"}
     \/ pc[p] = "lease" /\ pc'[p] = "raised"
     \/ pc[p] \in {"ready", "running"} /\ pc'[p] \in {"running", "collect", "close"}
     \/ pc[p] = "collect" /\ pc'[p] = "close"
     \/ pc[p] \in {"report", "seal"} /\ pc'[p] \in {"seal", "returned", "raised"}
     \/ pc[p] \in {"returned", "raised"} /\ pc'[p] \in {"raised", "ended"}

LEMMA MovedLease ==
  ASSUME LeaseTypeOK, LeaseInv, NEW p \in Owners, MovedOn(p)
  PROVE  LeaseTypeOK' /\ LeaseInv'
BY DEF LeaseTypeOK, LeaseInv, Lease, Guarded, Resources, MovedOn, leaseVars, Pcs

(* A lease that was made and is not used.                                      *)
LEMMA UnusedLease ==
  ASSUME LeaseTypeOK, LeaseInv, NEW p \in Owners,
         pc[p] = "lease", Goto(p, "raised"), Becomes(p, "new"),
         lock' = [lock EXCEPT ![p] = "owner"],
         UNCHANGED <<phase, env, child, docker, cleaner, receipt>>
  PROVE  LeaseTypeOK' /\ LeaseInv'
BY DEF LeaseTypeOK, LeaseInv, Lease, Guarded, Resources, Goto, Becomes, Pcs, Lives

(* A lease that its run gives up.                                              *)
LEMMA GivenUpLease ==
  ASSUME LeaseTypeOK, LeaseInv, NEW p \in Owners,
         pc[p] \in {"ready", "running", "collect"}, Goto(p, "cancel"), Becomes(p, "failed"),
         UNCHANGED <<lock, phase, env, child, docker, cleaner, receipt>>
  PROVE  LeaseTypeOK' /\ LeaseInv'
BY DEF LeaseTypeOK, LeaseInv, Lease, Guarded, Resources, Goto, Becomes, Pcs, Lives

LEMMA LeaseTypes ==
  ASSUME LeaseTypeOK, NEW p \in Owners,
         Create(p) \/ LeaseGoesOn(p) \/ LeaseFails(p) \/ World(p) \/ Gone(p)
  PROVE  LeaseTypeOK'
<1> USE DEF LeaseTypeOK, Step, Goto, Becomes, Phase, Pcs, Lives, Phases
<1>1. CASE Create(p) \/ Gone(p)
  BY <1>1 DEF Create, Gone
<1>2. CASE Record(p) \/ Compose(p) \/ Ready(p) \/ PrepareFails(p) \/ StartFails(p)
<2>1. CASE Record(p)
  BY <2>1 DEF Record
<2>2. CASE Compose(p)
  BY <2>2 DEF Compose
<2>3. CASE Ready(p)
  BY <2>3 DEF Ready
<2>4. CASE StartFails(p)
  BY <2>4 DEF StartFails
<2>5. CASE PrepareFails(p)
  BY <2>5 DEF PrepareFails
<2> QED
  BY <1>2, <2>1, <2>2, <2>3, <2>4, <2>5
<1>3. CASE NothingToDestroy(p) \/ DestroyFails(p)
<2>1. CASE NothingToDestroy(p)
  BY <2>1 DEF NothingToDestroy, Destroyed
<2>2. CASE DestroyFails(p)
  <3>1. env' \in [Owners -> BOOLEAN]
    BY <2>2 DEF DestroyFails
  <3> QED
    BY <2>2, <3>1 DEF DestroyFails, Destroyed
<2> QED
  BY <1>3, <2>1, <2>2
<1>4. CASE StopEnvironment(p) \/ Verified(p)
<2>1. CASE StopEnvironment(p)
  <3>1. PICK left \in {FALSE, docker[p]} : docker' = [docker EXCEPT ![p] = left]
    BY <2>1 DEF StopEnvironment
  <3>2. docker' \in [Owners -> BOOLEAN]
    BY <3>1
  <3> QED
    BY <2>1, <3>2 DEF StopEnvironment
<2>2. CASE Verified(p)
  BY <2>2 DEF Verified, Destroyed
<2> QED
  BY <1>4, <2>1, <2>2
<1>5. CASE World(p)
<2>1. CASE Created(p)
  BY <2>1 DEF Created
<2>7. CASE ComposeEnds(p)
  BY <2>7 DEF ComposeEnds
<2>2. CASE RecoverLock(p)
  BY <2>2 DEF RecoverLock
<2>3. CASE RecoverInspect(p)
  BY <2>3 DEF RecoverInspect
<2>4. CASE RecoverRemove(p)
  BY <2>4 DEF RecoverRemove
<2>5. CASE RecoverVerify(p)
  BY <2>5 DEF RecoverVerify
<2>6. CASE RecoverStops(p)
  BY <2>6 DEF RecoverStops
<2> QED
  BY <1>5, <2>1, <2>2, <2>3, <2>4, <2>5, <2>6, <2>7 DEF World
<1> QED
  BY <1>1, <1>2, <1>3, <1>4, <1>5 DEF LeaseGoesOn, LeaseFails

-------------------------------------------------------------------------------
(* A run, the claim of its id and the dispatch it was started for.             *)

Runs(p) ==
  /\ pc[p] \in {"idle", "lease", "prepare", "compose", "starting", "ready"} => p \notin ran
  /\ pc[p] \in {"running", "collect"} => p \in ran
  /\ p \in ran => life[p] # "none"
  /\ status[p] \in Executed => p \in ran
  /\ report[p] \in Executed => p \in ran
  /\ verified[p] => life[p] = "closed" /\ pc[p] \in {"seal", "returned", "raised", "ended", "gone"}
  /\ pc[p] = "seal" => p \in Claimed /\ report[p] = "delivered" /\ verified[p]

(* What a worker has run in was up, so nothing is made in it any more.         *)
Settled(p) ==
  p \in ran => ~child[p] /\ (docker[p] => env[p] /\ receipt[p] # "cleaned")

Entered(p) == pc[p] = "lease" \/ life[p] # "none"

Claims ==
  /\ holder \in Claimed \cup {Nobody}
  /\ claim = "absent" => \A p \in Claimed : ~Entered(p)
  /\ \A p, q \in Claimed : Entered(p) /\ Entered(q) => p = q
  /\ \A p \in Claimed : life[p] # "none" /\ pc[p] \notin {"raised", "gone"} => holder = p
  /\ claim = "completed" => holder \in ran /\ report[holder] = "delivered" /\ verified[holder]
  /\ \A p \in Claimed : pc[p] = "returned" => p \in ran \/ claim = "completed"

InRun == Pcs \ {"idle", "raised", "ended", "gone"}

Dispatched(p) ==
  /\ pc[p] = "idle" => index[p] = NoTask
  /\ pc[p] = "raised" \/ p \in ran => index[p] # NoTask
  /\ index[p] # NoTask => index[p] < completed \/ pending = index[p]
  /\ pc[p] \in InRun =>
       index[p] # NoTask /\ pending = index[p] /\ using[p] = candidate
  /\ index[p] # NoTask /\ index[p] < completed => Evidence(p)

Streams ==
  /\ pending # NoTask => pending = completed /\ completed < Tasks
  /\ \A p \in Streamers : Dispatched(p)
  /\ \A p, q \in Streamers : index[p] = index[q] /\ index[p] # NoTask => p = q

IndInv ==
  TypeOK /\ LeaseInv /\ (\A p \in Owners : Runs(p)) /\ (\A p \in Owners : Settled(p)) /\ Claims /\ Streams

THEOREM InitInv == Init => IndInv
<1> SUFFICES ASSUME Init PROVE IndInv
  OBVIOUS
<1> USE DEF Init, RunInit, LeaseInit
<1>1. TypeOK
  BY DEF TypeOK, RunTypeOK, LeaseTypeOK, Pcs, Lives, Phases, Statuses, Streamers
<1>2. LeaseInv
  BY DEF LeaseInv, Lease, Guarded, Resources
<1>3. \A p \in Owners : Runs(p)
  BY DEF Runs, Executed
<1>6. \A p \in Owners : Settled(p)
  BY DEF Settled
<1>4. Claims
  BY DEF Claims, Entered
<1>5. Streams
  BY DEF Streams, Dispatched, Streamers, InRun
<1> QED
  BY <1>1, <1>2, <1>3, <1>4, <1>5, <1>6 DEF IndInv

-------------------------------------------------------------------------------
(* What the rest of the invariant sees of a step of the lease.                 *)

Moves(p) ==
  /\ pc' \in [Owners -> Pcs] /\ life' \in [Owners -> Lives]
  /\ \A q \in Owners \ {p} : pc'[q] = pc[q] /\ life'[q] = life[q]
  /\ pc[p] \in {"prepare", "compose", "starting", "cancel", "cancelling", "close", "closing"}
  /\ pc'[p] \in {"compose", "starting", "ready", "cancel", "cancelling", "close", "closing", "report"}
  /\ pc'[p] \in {"compose", "starting", "ready"} => pc[p] \in {"prepare", "compose", "starting"}
  /\ life[p] # "none" /\ life'[p] # "none"

LEMMA LeaseMoves ==
  ASSUME LeaseTypeOK, LeaseInv, NEW p \in Owners, LeaseGoesOn(p) \/ LeaseFails(p)
  PROVE  Moves(p)
<1> USE DEF Step, Goto, Becomes
<1>1. pc' \in [Owners -> Pcs] /\ life' \in [Owners -> Lives]
  BY LeaseTypes DEF LeaseTypeOK
<1>2. life[p] = "none" => pc[p] \in {"idle", "lease", "returned", "raised", "ended", "gone"}
  BY DEF LeaseInv, Lease
<1> HIDE DEF LeaseInv
<1>3. CASE Record(p) \/ Compose(p) \/ Ready(p) \/ StartFails(p)
  BY <1>1, <1>2, <1>3 DEF Moves, LeaseTypeOK, Record, Compose, Ready, StartFails
<1>4. CASE PrepareFails(p)
  BY <1>1, <1>2, <1>4 DEF Moves, LeaseTypeOK, PrepareFails
<1>5. CASE StopEnvironment(p)
  BY <1>1, <1>2, <1>5 DEF Moves, LeaseTypeOK, StopEnvironment
<1>6. CASE NothingToDestroy(p) \/ DestroyFails(p) \/ Verified(p)
  <2>1. pc[p] \in Cancelling \cup Closing /\ \E ok \in BOOLEAN : Destroyed(p, ok)
    BY <1>6 DEF NothingToDestroy, DestroyFails, Verified, Cancelling, Closing
  <2> QED
    BY <1>1, <1>2, <2>1 DEF Moves, LeaseTypeOK, Destroyed, Cancelling, Closing
<1> QED
  BY <1>3, <1>4, <1>5, <1>6 DEF LeaseGoesOn, LeaseFails

LEMMA WorldMoves ==
  ASSUME NEW p \in Owners, World(p)
  PROVE  UNCHANGED <<pc, life>>
BY DEF World, Created, ComposeEnds, RecoverLock, RecoverInspect, RecoverRemove,
       RecoverVerify, RecoverStops

-------------------------------------------------------------------------------
(* Types.                                                                      *)

LEMMA WorksTyped ==
  ASSUME TypeOK, LeaseInv, NEW p \in Owners, Starts(p) \/ Works(p) \/ Around(p) \/ Ends(p)
  PROVE  RunTypeOK'
<1> USE DEF TypeOK, RunTypeOK
<1>1. CASE Starts(p)
  BY <1>1 DEF Starts, Acquire, Resume, Start, Step, Goto, LeaseTypeOK, leaseVars, runVars, Pcs
<1>2. CASE MakeLease(p)
  <2>1. LeaseTypeOK'
    BY <1>2, LeaseTypes DEF MakeLease
  <2> QED
    BY <1>2, <2>1 DEF MakeLease, Says, Writes, Statuses
<1>9. CASE MakeLeaseFails(p)
  BY <1>9 DEF MakeLeaseFails, Step, Goto, Becomes, Writes, LeaseTypeOK, Pcs, Lives, Statuses
<1>3. CASE GoesOn(p) \/ Fails(p)
  <2>1. LeaseTypeOK'
    BY <1>3, LeaseTypes DEF GoesOn, Fails
  <2> QED
    BY <1>3, <2>1 DEF GoesOn, Fails, runVars, Statuses
<1>4. CASE Run(p)
  BY <1>4 DEF Run, Step, Goto, Says, Writes, LeaseTypeOK, leaseVars, Pcs, Statuses
<1>5. CASE Interrupted(p) \/ AdapterReturns(p)
  BY <1>5 DEF Interrupted, AdapterReturns, Step, Goto, Becomes, Says, LeaseTypeOK, leaseVars,
              Pcs, Lives, Statuses
<1>6. CASE Collect(p)
  BY <1>6 DEF Collect, Step, Goto, Becomes, Says, LeaseTypeOK, Pcs, Lives, Statuses, Executed
<1>7. CASE Report(p) \/ ReportFails(p) \/ Seal(p)
<2>1. CASE Report(p)
  <3>1. pc' \in [Owners -> Pcs]
    BY <2>1 DEF Report, Step, Goto, LeaseTypeOK, Pcs
  <3>2. report' \in [Owners -> Statuses]
    BY <2>1 DEF Report, Writes, LeaseTypeOK
  <3>3. verified' \in [Owners -> BOOLEAN]
    BY <2>1 DEF Report, LeaseTypeOK
  <3> QED
    BY <2>1, <3>1, <3>2, <3>3 DEF Report, LeaseTypeOK, leaseVars
<2>2. CASE Seal(p)
  BY <2>2 DEF Seal, Step, Goto, LeaseTypeOK, leaseVars, Pcs
<2>3. CASE ReportFails(p)
  <3>1. report' \in [Owners -> Statuses] /\ verified' \in [Owners -> BOOLEAN]
    BY <2>3 DEF ReportFails, Writes
  <3> QED
    BY <2>3, <3>1 DEF ReportFails, Step, Goto, LeaseTypeOK, leaseVars, Pcs
<2> QED
  BY <1>7, <2>1, <2>2, <2>3
<1>8. CASE Around(p) \/ Ends(p)
  <2>1. LeaseTypeOK'
    BY <1>8, LeaseTypes DEF Around, Ends
  <2> QED
    BY <1>8, <2>1 DEF Around, Ends, runVars
<1> QED
  BY <1>1, <1>2, <1>3, <1>4, <1>5, <1>6, <1>7, <1>8, <1>9 DEF Works

-------------------------------------------------------------------------------
(* The lease under every step of a run.                                        *)

LEMMA WorksLease ==
  ASSUME TypeOK, LeaseInv, NEW p \in Owners, Starts(p) \/ Works(p) \/ Around(p) \/ Ends(p)
  PROVE  LeaseInv'
<1>0. LeaseTypeOK
  BY DEF TypeOK, RunTypeOK
<1>1. CASE Starts(p)
  <2>1. MovedOn(p)
    BY <1>0, <1>1 DEF Starts, Acquire, Resume, Start, Step, Goto, LeaseTypeOK, MovedOn, Pcs
  <2> QED
    BY <1>0, <2>1, MovedLease
<1>2. CASE MakeLease(p)
  BY <1>0, <1>2, PreparingLease DEF MakeLease
<1>3. CASE GoesOn(p) \/ Fails(p)
  BY <1>0, <1>3, PreparingLease, DestroyLease DEF GoesOn, Fails, LeaseGoesOn, LeaseFails
<1>9. CASE MakeLeaseFails(p)
  <2>1. CASE UNCHANGED <<life, lock>>
    <3>1. MovedOn(p)
      BY <1>0, <1>9, <2>1 DEF MakeLeaseFails, Step, Goto, LeaseTypeOK, MovedOn, leaseVars, Pcs
    <3> QED
      BY <1>0, <3>1, MovedLease
  <2>2. CASE Becomes(p, "new") /\ lock' = [lock EXCEPT ![p] = "owner"]
    BY <1>0, <1>9, <2>2, UnusedLease DEF MakeLeaseFails, Step
  <2> QED
    BY <1>9, <2>1, <2>2 DEF MakeLeaseFails
<1>4. CASE Run(p) \/ AdapterReturns(p) \/ Report(p) \/ ReportFails(p) \/ Seal(p)
  <2>1. MovedOn(p)
    BY <1>0, <1>4 DEF Run, AdapterReturns, Report, ReportFails, Seal, Step, Goto, LeaseTypeOK, MovedOn, Pcs
  <2> QED
    BY <1>0, <2>1, MovedLease
<1>5. CASE Interrupted(p)
  BY <1>0, <1>5, GivenUpLease DEF Interrupted, Step
<1>6. CASE Collect(p)
  <2>1. CASE pc[p] = "collect" /\ Goto(p, "close") /\ UNCHANGED life
    <3>1. MovedOn(p)
      BY <1>0, <1>6, <2>1 DEF Collect, Goto, LeaseTypeOK, MovedOn, leaseVars, Pcs
    <3> QED
      BY <1>0, <3>1, MovedLease
  <2>2. CASE pc[p] = "collect" /\ Goto(p, "cancel") /\ Becomes(p, "failed")
    BY <1>0, <1>6, <2>2, GivenUpLease DEF Collect
  <2> QED
    BY <1>6, <2>1, <2>2 DEF Collect, Step
<1>7. CASE Around(p)
  BY <1>0, <1>7, WorldLease DEF Around
<1>8. CASE Ends(p)
  BY <1>0, <1>8, GoneLease DEF Ends
<1> QED
  BY <1>1, <1>2, <1>3, <1>4, <1>5, <1>6, <1>7, <1>8, <1>9 DEF Works

-------------------------------------------------------------------------------
(* Runs and claims.                                                            *)

Typed == LeaseTypeOK /\ RunTypeOK
RunsInv == \A p \in Owners : Runs(p)

LEMMA StartsRuns ==
  ASSUME Typed, LeaseInv, RunsInv, Claims, NEW p \in Owners, Starts(p)
  PROVE  RunsInv' /\ Claims'
<1> USE DEF Typed, RunTypeOK, LeaseTypeOK
<1>1. pc[p] = "idle" /\ life[p] = "none" /\ p \notin ran
  BY DEF Starts, Acquire, Resume, Start, Step, RunsInv, Runs, LeaseInv, Lease
<1>2. CASE Acquire(p)
  <2>1. RunsInv'
    BY <1>1, <1>2 DEF Acquire, Start, Step, Goto, RunsInv, Runs, leaseVars
  <2>2. Claims'
    BY <1>1, <1>2 DEF Acquire, Start, Step, Goto, Claims, Entered, leaseVars
  <2> QED
    BY <2>1, <2>2
<1>3. CASE Resume(p)
  <2>1. RunsInv'
    BY <1>1, <1>3 DEF Resume, Start, Step, Goto, RunsInv, Runs, leaseVars, runVars
  <2>2. Claims'
    BY <1>1, <1>3 DEF Resume, Start, Step, Goto, Claims, Entered, leaseVars, runVars
  <2> QED
    BY <2>1, <2>2
<1> QED
  BY <1>2, <1>3 DEF Starts

LEMMA MakeLeaseRuns ==
  ASSUME Typed, LeaseInv, RunsInv, Claims, NEW p \in Owners, MakeLease(p)
  PROVE  RunsInv' /\ Claims'
<1> USE DEF Typed, RunTypeOK, LeaseTypeOK
<1>1. pc[p] = "lease" /\ life[p] = "none" /\ p \notin ran
  BY DEF MakeLease, Create, Step, RunsInv, Runs, LeaseInv, Lease
<1>2. /\ pc' = [pc EXCEPT ![p] = "prepare"] /\ life' = [life EXCEPT ![p] = "new"]
      /\ status' = [status EXCEPT ![p] = "preparing"]
      /\ report' = [report EXCEPT ![p] = "preparing"]
      /\ holder' = IF p \in Claimed THEN p ELSE holder
      /\ UNCHANGED <<verified, ran, claim>>
  BY DEF MakeLease, Create, Step, Goto, Becomes, Says, Writes
<1>3. ~verified[p] /\ report[p] \notin Executed
  BY <1>1 DEF RunsInv, Runs
<1>4. RunsInv'
  BY <1>1, <1>2, <1>3 DEF RunsInv, Runs, Executed
<1>5. Claims'
  <2>1. p \in Claimed => claim # "completed"
    BY <1>1 DEF Claims, Entered, RunsInv, Runs
  <2>2. p \in Claimed => claim # "absent" /\ \A q \in Claimed \ {p} : ~Entered(q)
    BY <1>1 DEF Claims, Entered
  <2>3. holder' \in Claimed \cup {Nobody}
    BY <1>2 DEF Claims
  <2>4. \A q \in Claimed : q # p => (Entered(q)' <=> Entered(q))
    BY <1>2 DEF Entered
  <2>5. claim' = "completed" => holder' \in ran' /\ report'[holder'] = "delivered" /\ verified'[holder']
    BY <1>1, <1>2, <2>1 DEF Claims
  <2>6. \A q \in Claimed : life'[q] # "none" /\ pc'[q] \notin {"raised", "gone"} => holder' = q
    BY <1>1, <1>2, <2>2 DEF Claims, Entered
  <2>7. claim' = "absent" => \A q \in Claimed : ~Entered(q)'
    BY <1>1, <1>2, <2>2, <2>4 DEF Claims, Entered
  <2>8. \A q, r \in Claimed : Entered(q)' /\ Entered(r)' => q = r
    BY <1>1, <1>2, <2>2, <2>4 DEF Claims
  <2>9. \A q \in Claimed : pc'[q] = "returned" => q \in ran' \/ claim' = "completed"
    BY <1>1, <1>2 DEF Claims
  <2> QED
    BY <2>3, <2>5, <2>6, <2>7, <2>8, <2>9 DEF Claims
<1> QED
  BY <1>4, <1>5

(* The same, when the run goes no further: the report may be any before it.    *)
LEMMA UnmadeRuns ==
  ASSUME Typed, LeaseInv, RunsInv, Claims, NEW p \in Owners, MakeLeaseFails(p)
  PROVE  RunsInv' /\ Claims'
<1> USE DEF Typed, RunTypeOK, LeaseTypeOK
<1>1. /\ pc[p] = "lease" /\ life[p] = "none" /\ p \notin ran
      /\ ~verified[p] /\ report[p] \notin Executed
  BY DEF MakeLeaseFails, Step, RunsInv, Runs, LeaseInv, Lease
<1>2. /\ pc' = [pc EXCEPT ![p] = "raised"]
      /\ life' = life \/ life' = [life EXCEPT ![p] = "new"]
      /\ report' = report \/ report' = [report EXCEPT ![p] = "preparing"]
      /\ holder' = holder \/ (p \in Claimed /\ holder' = p)
      /\ UNCHANGED <<status, verified, ran, claim>>
  BY DEF MakeLeaseFails, Step, Goto, Becomes, Writes
<1>3. RunsInv'
  BY <1>1, <1>2 DEF RunsInv, Runs, Executed
<1>4. Claims'
  <2>1. p \in Claimed => claim # "absent" /\ claim # "completed"
    BY <1>1 DEF Claims, Entered, RunsInv, Runs
  <2>2. p \in Claimed => \A q \in Claimed \ {p} : ~Entered(q)
    BY <1>1 DEF Claims, Entered
  <2>3. \A q \in Claimed : Entered(q)' => Entered(q)
    BY <1>1, <1>2 DEF Entered
  <2>4. holder' \in Claimed \cup {Nobody}
    BY <1>2 DEF Claims
  <2>5. claim' = "completed" => holder' \in ran' /\ report'[holder'] = "delivered" /\ verified'[holder']
    BY <1>1, <1>2, <2>1 DEF Claims
  <2>6. \A q \in Claimed : life'[q] # "none" /\ pc'[q] \notin {"raised", "gone"} => holder' = q
    BY <1>1, <1>2, <2>2 DEF Claims, Entered
  <2>7. \A q \in Claimed : pc'[q] = "returned" => q \in ran' \/ claim' = "completed"
    BY <1>1, <1>2 DEF Claims
  <2> QED
    BY <1>2, <2>3, <2>4, <2>5, <2>6, <2>7 DEF Claims
<1> QED
  BY <1>3, <1>4

LEMMA MovesRuns ==
  ASSUME Typed, RunsInv, Claims, NEW p \in Owners, Moves(p),
         status' \in [Owners -> Statuses],
         \A q \in Owners : status'[q] \in Executed => status[q] \in Executed,
         UNCHANGED <<report, verified, ran, claim, holder>>
  PROVE  RunsInv' /\ Claims'
<1> USE DEF Typed, RunTypeOK, LeaseTypeOK
<1>1. RunsInv'
  BY DEF Moves, RunsInv, Runs
<1>2. Claims'
  BY DEF Moves, Claims, Entered
<1> QED
  BY <1>1, <1>2

(* The process goes on with its run: what it says and has begun.               *)
LEMMA RunRuns ==
  ASSUME Typed, LeaseInv, RunsInv, Claims, NEW p \in Owners,
         Run(p) \/ Interrupted(p) \/ AdapterReturns(p) \/ Collect(p)
  PROVE  RunsInv' /\ Claims'
<1> USE DEF Typed, RunTypeOK, LeaseTypeOK
<1>0. pc[p] \in {"ready", "running", "collect"} /\ life[p] = "ready" /\ ~verified[p]
  BY DEF Run, Interrupted, AdapterReturns, Collect, Step, LeaseInv, Lease, RunsInv, Runs
<1>1. CASE Run(p)
  <2>1. RunsInv'
    BY <1>0, <1>1 DEF Run, Step, Goto, Says, Writes, RunsInv, Runs, leaseVars, Executed
  <2>2. Claims'
    <3>1. holder \in Owners => (report'[holder] = report[holder] \/ holder = p)
      BY <1>1 DEF Run, Writes
    <3>2. claim = "completed" => holder # p
      BY <1>0 DEF Claims
    <3> QED
      BY <1>0, <1>1, <3>1, <3>2 DEF Run, Step, Goto, Claims, Entered, leaseVars
  <2> QED
    BY <2>1, <2>2
<1>2. CASE Interrupted(p)
  <2>1. RunsInv'
    BY <1>0, <1>2 DEF Interrupted, Step, Goto, Says, Becomes, RunsInv, Runs, Executed
  <2>2. Claims'
    BY <1>0, <1>2 DEF Interrupted, Step, Goto, Becomes, Claims, Entered
  <2> QED
    BY <2>1, <2>2
<1>3. CASE AdapterReturns(p)
  <2>1. RunsInv'
    BY <1>0, <1>3 DEF AdapterReturns, Step, Goto, Says, RunsInv, Runs, leaseVars, Executed
  <2>2. Claims'
    BY <1>0, <1>3 DEF AdapterReturns, Step, Goto, Claims, Entered, leaseVars
  <2> QED
    BY <2>1, <2>2
<1>4. CASE Collect(p)
  <2>1. p \in ran
    BY <1>4 DEF Collect, Step, RunsInv, Runs
  <2>2. RunsInv'
    BY <1>0, <1>4, <2>1 DEF Collect, Step, Goto, Says, Becomes, RunsInv, Runs
  <2>3. Claims'
    BY <1>0, <1>4 DEF Collect, Step, Goto, Becomes, Claims, Entered
  <2> QED
    BY <2>2, <2>3
<1> QED
  BY <1>1, <1>2, <1>3, <1>4

LEMMA ReportRuns ==
  ASSUME Typed, LeaseInv, RunsInv, Claims, NEW p \in Owners, Report(p)
  PROVE  RunsInv' /\ Claims'
<1> USE DEF Typed, RunTypeOK, LeaseTypeOK
<1>0. pc[p] = "report" /\ ~verified[p] /\ life[p] # "none"
  BY DEF Report, Step, LeaseInv, Lease, RunsInv, Runs
<1>1. /\ report' = [report EXCEPT ![p] = status[p]]
      /\ verified' = [verified EXCEPT ![p] = (life[p] = "closed")]
      /\ UNCHANGED <<life, status, ran, claim, holder>>
  BY DEF Report, Writes, leaseVars
<1>2. \/ pc' = [pc EXCEPT ![p] = "seal"] /\ p \in Claimed /\ status[p] = "delivered" /\ life[p] = "closed"
      \/ pc' = [pc EXCEPT ![p] = "returned"] /\ status[p] \in Executed
      \/ pc' = [pc EXCEPT ![p] = "raised"]
  BY DEF Report, Step, Goto
<1>3. RunsInv'
  <2>1. Runs(p)
    BY DEF RunsInv
  <2>2. /\ pc'[p] \in {"seal", "returned", "raised"}
        /\ pc'[p] = "seal" => p \in Claimed /\ status[p] = "delivered" /\ life[p] = "closed"
        /\ report'[p] = status[p] /\ verified'[p] = (life[p] = "closed")
    BY <1>1, <1>2
  <2>3. Runs(p)'
    BY <1>0, <1>1, <2>1, <2>2 DEF Runs
  <2>4. \A q \in Owners \ {p} : Runs(q)'
    BY <1>1, <1>2 DEF RunsInv, Runs
  <2> QED
    BY <2>3, <2>4 DEF RunsInv
<1>4. Claims'
  <2>1. claim = "completed" => holder # p
    BY <1>0 DEF Claims
  <2>2. status[p] \in Executed => p \in ran
    BY DEF RunsInv, Runs
  <2> QED
    BY <1>0, <1>1, <1>2, <2>1, <2>2 DEF Claims, Entered
<1> QED
  BY <1>3, <1>4

LEMMA ReportFailsRuns ==
  ASSUME Typed, LeaseInv, RunsInv, Claims, NEW p \in Owners, ReportFails(p)
  PROVE  RunsInv' /\ Claims'
<1> USE DEF Typed, RunTypeOK, LeaseTypeOK
<1>0. pc[p] = "report" /\ ~verified[p] /\ life[p] # "none"
  BY DEF ReportFails, Step, LeaseInv, Lease, RunsInv, Runs
<1>1. /\ pc' = [pc EXCEPT ![p] = "raised"]
      /\ report'[p] \in {report[p], status[p]} /\ verified'[p] \in {verified[p], life[p] = "closed"}
      /\ \A q \in Owners \ {p} : report'[q] = report[q] /\ verified'[q] = verified[q]
      /\ UNCHANGED <<life, status, ran, claim, holder>>
  BY DEF ReportFails, Step, Goto, Writes, leaseVars
<1>2. RunsInv'
  <2>1. Runs(p)
    BY DEF RunsInv
  <2>2. Runs(p)'
    BY <1>0, <1>1, <2>1 DEF Runs
  <2>3. \A q \in Owners \ {p} : Runs(q)'
    BY <1>1 DEF RunsInv, Runs
  <2> QED
    BY <2>2, <2>3 DEF RunsInv
<1>3. Claims'
  <2>1. claim = "completed" => holder # p /\ holder \in Owners
    BY <1>0 DEF Claims
  <2> QED
    BY <1>0, <1>1, <2>1 DEF Claims, Entered
<1> QED
  BY <1>2, <1>3

LEMMA SealRuns ==
  ASSUME Typed, LeaseInv, RunsInv, Claims, NEW p \in Owners, Seal(p)
  PROVE  RunsInv' /\ Claims'
<1> USE DEF Typed, RunTypeOK, LeaseTypeOK
<1>0. /\ pc[p] = "seal" /\ p \in Claimed /\ report[p] = "delivered" /\ verified[p]
      /\ p \in ran /\ life[p] # "none"
  BY DEF Seal, Step, RunsInv, Runs, Executed
<1>1. holder = p
  BY <1>0 DEF Claims
<1>2. RunsInv'
  BY <1>0 DEF Seal, Step, Goto, RunsInv, Runs, leaseVars
<1>3. Claims'
  BY <1>0, <1>1 DEF Seal, Step, Goto, Claims, Entered, leaseVars
<1> QED
  BY <1>2, <1>3

LEMMA WorksRuns ==
  ASSUME Typed, LeaseInv, RunsInv, Claims, NEW p \in Owners,
         Starts(p) \/ Works(p) \/ Around(p) \/ Ends(p)
  PROVE  RunsInv' /\ Claims'
<1>1. CASE GoesOn(p) \/ Fails(p)
  <2>1. Moves(p)
    BY <1>1, LeaseMoves DEF Typed, GoesOn, Fails
  <2>2. /\ status' \in [Owners -> Statuses]
        /\ \A q \in Owners : status'[q] \in Executed => status[q] \in Executed
        /\ UNCHANGED <<report, verified, ran, claim, holder>>
    BY <1>1 DEF Typed, RunTypeOK, GoesOn, Fails, runVars, Statuses, Executed
  <2> QED
    BY <2>1, <2>2, MovesRuns
<1>2. CASE Around(p)
  BY <1>2, WorldMoves DEF Around, runVars, RunsInv, Runs, Claims, Entered
<1>3. CASE Ends(p)
  BY <1>3 DEF Ends, Gone, Goto, runVars, Typed, LeaseTypeOK, RunsInv, Runs, Claims, Entered
<1> QED
  BY <1>1, <1>2, <1>3, StartsRuns, MakeLeaseRuns, UnmadeRuns, RunRuns, ReportRuns, ReportFailsRuns,
     SealRuns DEF Works

SettledInv == \A p \in Owners : Settled(p)

(* Only a compose makes anything, and it has returned before a worker runs.    *)
LEMMA WorksSettled ==
  ASSUME Typed, LeaseInv, RunsInv, SettledInv, NEW p \in Owners,
         Starts(p) \/ Works(p) \/ Around(p) \/ Ends(p)
  PROVE  SettledInv'
<1> USE DEF Typed, RunTypeOK, LeaseTypeOK, SettledInv, Settled
<1>1. CASE Starts(p)
  BY <1>1 DEF Starts, Acquire, Resume, leaseVars, runVars
<1>2. CASE MakeLease(p) \/ MakeLeaseFails(p)
  BY <1>2 DEF MakeLease, MakeLeaseFails, Create
<1>3. CASE GoesOn(p) \/ Fails(p)
  <2>1. UNCHANGED ran
    BY <1>3 DEF GoesOn, Fails, runVars
  <2>2. CASE Record(p) \/ Compose(p) \/ Ready(p) \/ PrepareFails(p) \/ StartFails(p)
    BY <2>1, <2>2 DEF RunsInv, Runs, Record, Compose, Ready, PrepareFails, StartFails, Step
  <2>3. CASE NothingToDestroy(p) \/ StopEnvironment(p)
    <3>1. /\ \A q \in Owners : docker'[q] => docker[q]
          /\ UNCHANGED <<env, child, receipt>>
      <4>1. CASE NothingToDestroy(p)
        BY <4>1 DEF NothingToDestroy
      <4>2. CASE StopEnvironment(p)
        <5>1. PICK left \in {FALSE, docker[p]} : docker' = [docker EXCEPT ![p] = left]
          BY <4>2 DEF StopEnvironment
        <5> QED
          BY <4>2, <5>1 DEF StopEnvironment
      <4> QED
        BY <2>3, <4>1, <4>2
    <3> QED
      BY <2>1, <3>1
  <2>4. CASE Verified(p) \/ DestroyFails(p)
    <3>1. /\ \A q \in Owners : docker[q] => env'[q] = env[q]
          /\ UNCHANGED <<docker, child, receipt>>
      BY <2>4 DEF Verified, DestroyFails
    <3> QED
      BY <2>1, <3>1
  <2> QED
    BY <1>3, <2>2, <2>3, <2>4 DEF GoesOn, Fails, LeaseGoesOn, LeaseFails
<1>4. CASE Run(p)
  <2>1. ~child[p] /\ env[p] /\ receipt[p] = "none"
    BY <1>4 DEF Run, Step, LeaseInv, Lease, Guarded
  <2> QED
    BY <1>4, <2>1 DEF Run, leaseVars
<1>5. CASE Interrupted(p) \/ AdapterReturns(p) \/ Collect(p)
  BY <1>5 DEF Interrupted, AdapterReturns, Collect, leaseVars
<1>6. CASE Report(p) \/ ReportFails(p) \/ Seal(p)
  BY <1>6 DEF Report, ReportFails, Seal, leaseVars
<1>7. CASE Around(p)
  <2>1. UNCHANGED ran
    BY <1>7 DEF Around, runVars
  <2>2. CASE Created(p) \/ ComposeEnds(p)
    BY <2>1, <2>2 DEF Created, ComposeEnds
  <2>3. CASE RecoverLock(p) \/ RecoverInspect(p) \/ RecoverRemove(p)
    BY <2>1, <2>3 DEF RecoverLock, RecoverInspect, RecoverRemove
  <2>4. CASE RecoverVerify(p) \/ RecoverStops(p)
    BY <2>1, <2>4 DEF RecoverVerify, RecoverStops
  <2> QED
    BY <1>7, <2>2, <2>3, <2>4 DEF Around, World
<1>8. CASE Ends(p)
  BY <1>8 DEF Ends, Gone, runVars
<1> QED
  BY <1>1, <1>2, <1>3, <1>4, <1>5, <1>6, <1>7, <1>8 DEF Works

-------------------------------------------------------------------------------
(* The stream.                                                                 *)

StreamTypes ==
  /\ completed \in 0..Tasks
  /\ pending \in 0..Tasks \cup {NoTask}
  /\ candidate \in Candidates \cup {NoCandidate}
  /\ events \in Nat
  /\ valid \in BOOLEAN
  /\ snapshots \subseteq Nat
  /\ index \in [Streamers -> 0..Tasks \cup {NoTask}]
  /\ using \in [Streamers -> Candidates \cup {NoCandidate}]

(* Steps of runs leave the ledger alone; what they may change is theirs.       *)
LEMMA StreamKept ==
  ASSUME StreamTypes, Streams, UNCHANGED streamVars,
         NEW p \in Owners,
         \A q \in Owners \ {p} : /\ pc'[q] = pc[q] /\ report'[q] = report[q] /\ verified'[q] = verified[q]
                                 /\ q \in ran' => q \in ran,
         p \in Streamers =>
           /\ pc'[p] # "idle"
           /\ pc'[p] \in InRun => pc[p] \in InRun
           /\ pc'[p] = "raised" => pc[p] \in InRun \cup {"raised"}
           /\ p \in ran' => p \in ran \/ pc[p] \in InRun
           /\ pc[p] \in InRun \/ (report'[p] = report[p] /\ verified'[p] = verified[p])
  PROVE  StreamTypes' /\ Streams'
<1> USE DEF Streamers
<1>1. StreamTypes'
  BY DEF StreamTypes, streamVars, ledger
<1>2. ASSUME NEW q \in Streamers \ {p} PROVE Dispatched(q)'
  BY <1>2 DEF Streams, Dispatched, Evidence, streamVars, ledger
<1>3. ASSUME p \in Streamers PROVE Dispatched(p)'
  <2>1. Dispatched(p)
    BY <1>3 DEF Streams
  <2>2. pc[p] \in InRun => index[p] # NoTask /\ ~(index[p] < completed)
    BY <1>3, <2>1 DEF Dispatched, Streams, StreamTypes
  <2> QED
    BY <1>3, <2>1, <2>2 DEF Dispatched, Evidence, streamVars, ledger
<1>4. \A q \in Streamers : Dispatched(q)'
  BY <1>2, <1>3
<1> QED
  BY <1>1, <1>4 DEF Streams, streamVars, ledger

LEMMA WorksStream ==
  ASSUME Typed, LeaseInv, RunsInv, StreamTypes, Streams, UNCHANGED streamVars, NEW p \in Owners,
         Starts(p) \/ Works(p) \/ Around(p) \/ Ends(p)
  PROVE  StreamTypes' /\ Streams'
<1> USE DEF Typed, RunTypeOK, LeaseTypeOK
<1> DEFINE Others == \A q \in Owners \ {p} : /\ pc'[q] = pc[q] /\ report'[q] = report[q]
                                             /\ verified'[q] = verified[q]
                                             /\ q \in ran' => q \in ran
           Mine == p \in Streamers =>
             /\ pc'[p] # "idle"
             /\ pc'[p] \in InRun => pc[p] \in InRun
             /\ pc'[p] = "raised" => pc[p] \in InRun \cup {"raised"}
             /\ p \in ran' => p \in ran \/ pc[p] \in InRun
             /\ pc[p] \in InRun \/ (report'[p] = report[p] /\ verified'[p] = verified[p])
<1>1. CASE Starts(p)
  <2>1. p \notin Streamers
    BY <1>1 DEF Starts, Acquire, Resume, Streamers
  <2>2. Others
    BY <1>1 DEF Starts, Acquire, Resume, Start, Step, Goto, runVars
  <2> QED
    BY <2>1, <2>2, StreamKept
<1>2. CASE MakeLease(p)
  <2>1. Others
    BY <1>2 DEF MakeLease, Create, Step, Goto, Writes
  <2>2. Mine
    BY <1>2 DEF MakeLease, Create, Step, Goto, InRun, Pcs
  <2> QED
    BY <2>1, <2>2, StreamKept
<1>10. CASE MakeLeaseFails(p)
  <2>1. Others
    BY <1>10 DEF MakeLeaseFails, Step, Goto, Writes
  <2>2. Mine
    BY <1>10 DEF MakeLeaseFails, Step, Goto, InRun, Pcs
  <2> QED
    BY <2>1, <2>2, StreamKept
<1>3. CASE GoesOn(p) \/ Fails(p)
  <2>1. Moves(p) /\ UNCHANGED <<report, verified, ran>>
    BY <1>3, LeaseMoves DEF GoesOn, Fails, runVars
  <2>2. Others
    BY <2>1 DEF Moves
  <2>3. Mine
    BY <2>1 DEF Moves, InRun, Pcs
  <2> QED
    BY <2>2, <2>3, StreamKept
<1>4. CASE Run(p)
  <2>1. Others
    BY <1>4 DEF Run, Step, Goto, Writes
  <2>2. Mine
    BY <1>4 DEF Run, Step, Goto, InRun, Pcs
  <2> QED
    BY <2>1, <2>2, StreamKept
<1>5. CASE Interrupted(p) \/ AdapterReturns(p) \/ Collect(p)
  <2>1. Others
    BY <1>5 DEF Interrupted, AdapterReturns, Collect, Step, Goto
  <2>2. Mine
    BY <1>5 DEF Interrupted, AdapterReturns, Collect, Step, Goto, InRun, Pcs
  <2> QED
    BY <2>1, <2>2, StreamKept
<1>6. CASE Report(p) \/ ReportFails(p)
  <2>1. Others
    BY <1>6 DEF Report, ReportFails, Step, Goto, Writes
  <2>2. Mine
    BY <1>6 DEF Report, ReportFails, Step, Goto, InRun, Pcs
  <2> QED
    BY <2>1, <2>2, StreamKept
<1>7. CASE Seal(p)
  <2>1. Others
    BY <1>7 DEF Seal, Step, Goto
  <2>2. Mine
    BY <1>7 DEF Seal, Step, Goto, InRun, Pcs
  <2> QED
    BY <2>1, <2>2, StreamKept
<1>8. CASE Around(p)
  BY <1>8, WorldMoves DEF Around, runVars, StreamTypes, Streams, Dispatched, Evidence, streamVars, ledger
<1>9. CASE Ends(p)
  <2>1. Others
    BY <1>9 DEF Ends, Gone, Goto, runVars
  <2>2. Mine
    BY <1>9 DEF Ends, Gone, Goto, runVars, InRun, Pcs
  <2> QED
    BY <2>1, <2>2, StreamKept
<1> QED
  BY <1>1, <1>2, <1>3, <1>4, <1>5, <1>6, <1>7, <1>8, <1>9, <1>10 DEF Works

(* A section of run_next: what the lease, the run and the claim see of it.     *)
Section(p) ==
  /\ UNCHANGED <<leaseVars, runVars>>
  /\ \E to \in {"lease", "raised", "ended"} : Goto(p, to)
  /\ \/ pc[p] = "idle" /\ pc'[p] # "raised"
     \/ pc[p] \in {"returned", "raised"} /\ pc'[p] # "lease"

LEMMA SectionKept ==
  ASSUME Typed, LeaseInv, RunsInv, Claims, NEW p \in Streamers, Section(p)
  PROVE  RunTypeOK' /\ LeaseInv' /\ RunsInv' /\ (SettledInv => SettledInv') /\ Claims'
<1> USE DEF Typed
<1>0. /\ p \in Owners /\ p \notin Claimed
      /\ \A q \in Owners \ {p} : pc'[q] = pc[q]
      /\ pc'[p] \in {"lease", "raised", "ended"} /\ pc' \in [Owners -> Pcs]
  BY DEF Streamers, Section, Goto, LeaseTypeOK, Pcs
<1>1. MovedOn(p)
  BY <1>0 DEF Section, MovedOn
<1>2. LeaseTypeOK' /\ LeaseInv'
  BY <1>0, <1>1, MovedLease
<1>3. RunTypeOK'
  BY <1>2 DEF RunTypeOK, Section, runVars
<1>4. RunsInv'
  BY <1>0 DEF RunsInv, Runs, Section, leaseVars, runVars
<1>5. Claims'
  BY <1>0 DEF Claims, Entered, Section, leaseVars, runVars
<1>6. SettledInv => SettledInv'
  BY DEF SettledInv, Settled, Section, leaseVars, runVars
<1> QED
  BY <1>2, <1>3, <1>4, <1>5, <1>6

LEMMA NotStarted ==
  ASSUME StreamTypes, Streams, NEW p \in Streamers, pc[p] = "idle", pending = NoTask
  PROVE  /\ index[p] = NoTask
         /\ \A q \in Streamers : index[q] # NoTask => index[q] < completed
         /\ \A q \in Streamers : pc[q] \notin InRun
  BY DEF StreamTypes, Streams, Dispatched

LEMMA DispatchStream ==
  ASSUME Typed, RunsInv, StreamTypes, Streams, NEW p \in Streamers, Dispatch(p)
  PROVE  StreamTypes' /\ Streams'
<1> USE DEF Typed, RunTypeOK, LeaseTypeOK, Streamers
<1>0. /\ pc[p] = "idle" /\ pc' = [pc EXCEPT ![p] = "lease"]
      /\ pending = NoTask /\ completed < Tasks /\ completed \in Nat
      /\ pending' = completed /\ events' = events + 1
      /\ snapshots' \in {snapshots, snapshots \cup {events}}
      /\ index' = [index EXCEPT ![p] = completed] /\ using' = [using EXCEPT ![p] = candidate]
      /\ UNCHANGED <<completed, candidate, valid, report, verified, ran>>
  BY DEF Dispatch, Dispatchable, Snapshot, Start, Step, Goto, runVars, StreamTypes
<1>1. StreamTypes'
  BY <1>0 DEF StreamTypes
<1>2. /\ index[p] = NoTask
      /\ \A q \in Streamers : index[q] # NoTask => index[q] < completed
      /\ \A q \in Streamers : pc[q] \notin InRun
  BY <1>0, NotStarted
<1>3. Dispatched(p)'
  BY <1>0 DEF Dispatched, StreamTypes
<1>4. ASSUME NEW q \in Streamers \ {p} PROVE Dispatched(q)'
  BY <1>0, <1>2, <1>4 DEF Streams, Dispatched, Evidence, StreamTypes
<1>5. \A q, r \in Streamers : index'[q] = index'[r] /\ index'[q] # NoTask => q = r
  <2>1. \A q \in Streamers \ {p} : index'[q] = index[q] /\ index[q] # completed
    BY <1>0, <1>2 DEF StreamTypes
  <2>2. index'[p] = completed
    BY <1>0 DEF StreamTypes
  <2> QED
    BY <2>1, <2>2 DEF Streams
<1>6. \A q \in Streamers : Dispatched(q)'
  BY <1>3, <1>4
<1> QED
  BY <1>0, <1>1, <1>5, <1>6 DEF Streams

LEMMA LostStream ==
  ASSUME Typed, RunsInv, StreamTypes, Streams, NEW p \in Streamers, DispatchLost(p)
  PROVE  StreamTypes' /\ Streams'
<1> USE DEF Typed, RunTypeOK, LeaseTypeOK, Streamers
<1>0. /\ pc[p] = "idle" /\ pc' = [pc EXCEPT ![p] = "ended"]
      /\ pending = NoTask /\ completed < Tasks /\ completed \in Nat
      /\ pending' \in {completed, pending} /\ events' \in {events, events + 1}
      /\ snapshots' \in {snapshots, snapshots \cup {events}}
      /\ UNCHANGED <<completed, candidate, valid, report, verified, ran, index, using>>
  BY DEF DispatchLost, Dispatchable, Snapshot, Start, Step, Goto, runVars, StreamTypes
<1>1. StreamTypes'
  BY <1>0 DEF StreamTypes
<1>2. /\ index[p] = NoTask
      /\ \A q \in Streamers : index[q] # NoTask => index[q] < completed
      /\ \A q \in Streamers : pc[q] \notin InRun
  BY <1>0, NotStarted
<1>3. \A q \in Streamers : Dispatched(q)'
  BY <1>0, <1>2 DEF Streams, Dispatched, Evidence, StreamTypes, InRun
<1> QED
  BY <1>0, <1>1, <1>3 DEF Streams

LEMMA AppendStream ==
  ASSUME Typed, RunsInv, StreamTypes, Streams, NEW p \in Streamers, NEW to \in {"ended", "raised"},
         Append(p, to)
  PROVE  StreamTypes' /\ Streams'
<1> USE DEF Typed, RunTypeOK, LeaseTypeOK, Streamers
<1>0. /\ pc[p] = "returned" /\ pc' = [pc EXCEPT ![p] = to]
      /\ Evidence(p) /\ pending = index[p]
      /\ completed' = completed + 1 /\ pending' = NoTask /\ events' = events + 1
      /\ UNCHANGED <<candidate, valid, snapshots, report, verified, ran, index, using>>
  BY DEF Append, Step, Goto, runVars
<1>1. index[p] # NoTask /\ pending = completed /\ completed < Tasks
  BY <1>0 DEF Streams, Dispatched, InRun, Pcs
<1>2. StreamTypes'
  BY <1>0, <1>1 DEF StreamTypes
<1>3. \A q \in Streamers \ {p} : index[q] # pending
  BY <1>0, <1>1 DEF Streams
<1>4. Dispatched(p)'
  BY <1>0, <1>1 DEF Streams, Dispatched, Evidence, StreamTypes, InRun
<1>5. ASSUME NEW q \in Streamers \ {p} PROVE Dispatched(q)'
  <2>1. Dispatched(q) /\ pc'[q] = pc[q] /\ pc[q] \notin InRun
    BY <1>0, <1>3, <1>5 DEF Streams, Dispatched
  <2>2. index[q] # NoTask => index[q] < completed
    BY <1>3, <2>1 DEF Dispatched
  <2>3. (index[q] # NoTask => index[q] < completed + 1) /\ completed \in Nat
    BY <2>2 DEF StreamTypes
  <2> QED
    BY <1>0, <2>1, <2>2, <2>3 DEF Dispatched, Evidence, InRun
<1>6. \A q \in Streamers : Dispatched(q)'
  BY <1>4, <1>5
<1> QED
  BY <1>0, <1>2, <1>6 DEF Streams

(* The sections that change at most the events and whether they can be read.   *)
LEMMA EndStream ==
  ASSUME Typed, StreamTypes, Streams, NEW p \in Streamers,
         pc[p] # "lease", NEW to \in {"ended", "raised"}, pc' = [pc EXCEPT ![p] = to],
         to = "raised" => pc[p] = "returned",
         events' \in {events, events + 1}, valid' \in BOOLEAN,
         UNCHANGED <<report, verified, ran, completed, pending, candidate, snapshots, index, using>>
  PROVE  StreamTypes' /\ Streams'
<1> USE DEF Typed, RunTypeOK, LeaseTypeOK, Streamers
<1>1. StreamTypes'
  BY DEF StreamTypes
<1>2. \A q \in Streamers : Dispatched(q)'
  BY DEF Streams, Dispatched, Evidence, InRun, Pcs
<1> QED
  BY <1>1, <1>2 DEF Streams

LEMMA ApproveStream ==
  ASSUME Typed, StreamTypes, Streams, NEW c \in Candidates, Approve(c)
  PROVE  StreamTypes' /\ Streams'
<1>1. StreamTypes'
  BY DEF StreamTypes, Approve
<1>2. \A q \in Streamers : pc[q] \notin InRun
  BY DEF Approve, Streams, Dispatched
<1>3. \A q \in Streamers : Dispatched(q)'
  BY <1>2 DEF Streams, Dispatched, Evidence, Approve, runVars, leaseVars
<1> QED
  BY <1>1, <1>3 DEF Streams, Approve

-------------------------------------------------------------------------------
THEOREM StepInv == IndInv /\ [Next]_vars => IndInv'
<1> SUFFICES ASSUME IndInv, [Next]_vars PROVE IndInv'
  OBVIOUS
<1>0. Typed /\ LeaseInv /\ RunsInv /\ SettledInv /\ Claims /\ StreamTypes /\ Streams
  BY DEF IndInv, TypeOK, Typed, RunTypeOK, RunsInv, SettledInv, StreamTypes
<1> DEFINE After == /\ RunTypeOK' /\ LeaseInv' /\ RunsInv' /\ SettledInv' /\ Claims'
                    /\ StreamTypes' /\ Streams'
<1>1. After => IndInv'
  BY DEF IndInv, TypeOK, RunsInv, SettledInv, StreamTypes
<1>2. CASE UNCHANGED vars
  BY <1>0, <1>2 DEF vars, leaseVars, runVars, streamVars, ledger, Typed, RunTypeOK, LeaseTypeOK,
     LeaseInv, Lease, Guarded, Resources, RunsInv, Runs, SettledInv, Settled, Claims, Entered,
     StreamTypes, Streams, Dispatched, Evidence, IndInv, TypeOK
<1>3. ASSUME NEW p \in Streamers, Refuse(p) \/ Dispatch(p) \/ DispatchLost(p) PROVE After
  <2>1. Section(p)
    <3>1. /\ UNCHANGED <<leaseVars, runVars>>
          /\ pc[p] = "idle" /\ (Goto(p, "lease") \/ Goto(p, "ended"))
      BY <1>3 DEF Refuse, Dispatch, DispatchLost, Start, Step
    <3>2. p \in Owners /\ pc'[p] # "raised"
      BY <1>0, <3>1 DEF Goto, Streamers, Typed, LeaseTypeOK
    <3> QED
      BY <3>1, <3>2 DEF Section
  <2>2. CASE Refuse(p)
    <3>1. /\ pc' = [pc EXCEPT ![p] = "ended"] /\ pc[p] = "idle" /\ events' = events /\ valid' = valid
          /\ UNCHANGED <<report, verified, ran, completed, pending, candidate, snapshots, index, using>>
      BY <2>2 DEF Refuse, Start, Step, Goto, runVars, streamVars, ledger
    <3>2. valid' \in BOOLEAN
      BY <1>0, <3>1 DEF StreamTypes
    <3> QED
      BY <1>0, <2>1, <3>1, <3>2, SectionKept, EndStream
  <2> QED
    BY <1>0, <1>3, <2>1, <2>2, SectionKept, DispatchStream, LostStream
<1>4. ASSUME NEW p \in Owners, Settles(p) PROVE After
  <2>0. p \in Streamers /\ pc[p] \in {"returned", "raised"}
    BY <1>4 DEF Settles, RecordCompleted, Append, RecordFails, RecordUnknown, UnknownLost, Step
  <2>1. Section(p)
    BY <1>0, <1>4, <2>0 DEF Settles, RecordCompleted, Append, RecordFails, RecordUnknown, UnknownLost, Step,
       Section, Goto, Typed, LeaseTypeOK, Streamers
  <2>2. CASE RecordCompleted(p)
    BY <1>0, <2>0, <2>1, <2>2, SectionKept, AppendStream DEF RecordCompleted
  <2>3. CASE RecordFails(p) \/ RecordUnknown(p) \/ UnknownLost(p)
    <3>1. PICK to \in {"ended", "raised"} :
             pc' = [pc EXCEPT ![p] = to] /\ (to = "raised" => pc[p] = "returned")
      BY <2>3 DEF RecordFails, RecordUnknown, UnknownLost, Step, Goto
    <3>2. /\ events' \in {events, events + 1} /\ valid' \in BOOLEAN
          /\ UNCHANGED <<report, verified, ran, completed, pending, candidate, snapshots, index, using>>
      BY <1>0, <2>3 DEF RecordFails, RecordUnknown, UnknownLost, runVars, streamVars, ledger, StreamTypes
    <3> QED
      BY <1>0, <2>0, <2>1, <3>1, <3>2, SectionKept, EndStream
  <2> QED
    BY <1>4, <2>2, <2>3 DEF Settles
<1>5. ASSUME NEW p \in Owners, Starts(p) \/ Works(p) \/ Around(p) \/ Ends(p), UNCHANGED streamVars
      PROVE  After
  <2>1. TypeOK
    BY DEF IndInv
  <2> QED
    BY <1>0, <1>5, <2>1, WorksTyped, WorksLease, WorksRuns, WorksSettled, WorksStream
<1>6. ASSUME NEW c \in Candidates, Approve(c) PROVE After
  <2>1. UNCHANGED <<pc, leaseVars, runVars>>
    BY <1>6 DEF Approve
  <2>2. RunTypeOK' /\ LeaseInv' /\ RunsInv' /\ SettledInv' /\ Claims'
    BY <1>0, <2>1 DEF leaseVars, runVars, Typed, RunTypeOK, LeaseTypeOK,
       LeaseInv, Lease, Guarded, Resources, RunsInv, Runs, SettledInv, Settled, Claims, Entered
  <2> QED
    BY <1>0, <1>6, <2>2, ApproveStream
<1> QED
  BY <1>1, <1>2, <1>3, <1>4, <1>5, <1>6 DEF Next

THEOREM Inductive == Spec => []IndInv
  BY InitInv, StepInv, PTL DEF Spec

-------------------------------------------------------------------------------
(* TypeOK: the ledger counts at most the tasks there are, everything else      *)
(* keeps its type.                                                             *)
THEOREM Types == Spec => []TypeOK
<1>1. IndInv => TypeOK
  BY DEF IndInv
<1> QED
  BY <1>1, Inductive, PTL

(* Traceable: whatever exists or may still come into being in docker is on     *)
(* record, and nothing but a live owner or a recovery keeps a recovery out.    *)
THEOREM OnRecord == Spec => []Traceable
<1>1. IndInv => Traceable
  BY DEF IndInv, LeaseInv, Guarded, Resources, Traceable
<1> QED
  BY <1>1, Inductive, PTL

(* RunningHasContainer: no recovery takes a live owner's environment away.     *)
THEOREM OwnerKeeps == Spec => []RunningHasContainer
<1>1. IndInv => RunningHasContainer
  BY DEF IndInv, LeaseInv, Lease, Guarded, RunningHasContainer
<1> QED
  BY <1>1, Inductive, PTL

(* CleanedIsGone: what was run in and is said to be gone is gone for good.     *)
THEOREM Recovered == Spec => []CleanedIsGone
<1>1. ASSUME IndInv PROVE CleanedIsGone
  <2>1. SUFFICES ASSUME NEW p \in ran,
                        phase[p] = "cleanup_verified" \/ verified[p] \/ receipt[p] = "cleaned"
                 PROVE  ~docker[p] /\ ~child[p]
    BY DEF CleanedIsGone
  <2>2. p \in Owners
    BY <1>1 DEF IndInv, TypeOK, RunTypeOK
  <2>3. phase[p] = "cleanup_verified" \/ verified[p] => ~env[p]
    BY <1>1, <2>2 DEF IndInv, LeaseInv, Lease, Resources, Runs
  <2> QED
    BY <1>1, <2>1, <2>2, <2>3 DEF IndInv, Settled
<1> QED
  BY <1>1, Inductive, PTL

(* ReuseIsVerified: one execution per run id, and only it is ever reused.      *)
THEOREM Reused == Spec => []ReuseIsVerified
<1>1. ASSUME IndInv PROVE ReuseIsVerified
  <2>1. \A p, q \in ran \cap Claimed : p = q
    BY <1>1 DEF IndInv, Claims, Entered, Runs
  <2>2. ASSUME NEW p \in Claimed \ ran, pc[p] = "returned"
        PROVE  /\ holder \in ran /\ report[holder] = "delivered" /\ verified[holder]
               /\ ~docker[holder] /\ ~child[holder]
    <3>1. holder \in ran /\ report[holder] = "delivered" /\ verified[holder]
      BY <1>1, <2>2 DEF IndInv, Claims
    <3>2. holder \in Owners /\ life[holder] = "closed"
      BY <1>1, <3>1 DEF IndInv, Runs, TypeOK, RunTypeOK
    <3> QED
      BY <1>1, <3>1, <3>2 DEF IndInv, LeaseInv, Lease, Settled
  <2> QED
    BY <2>1, <2>2 DEF ReuseIsVerified
<1> QED
  BY <1>1, Inductive, PTL

(* CompletedIsClean: completed tasks were executed, verified and removed.      *)
THEOREM Clean == Spec => []CompletedIsClean
<1>1. ASSUME IndInv PROVE CompletedIsClean
  <2>1. SUFFICES ASSUME NEW p \in Streamers, index[p] # NoTask, index[p] < completed
                 PROVE  Evidence(p) /\ life[p] = "closed" /\ ~docker[p] /\ ~child[p]
    BY DEF CompletedIsClean
  <2>2. Evidence(p) /\ p \in Owners
    BY <1>1, <2>1 DEF IndInv, Streams, Dispatched, Streamers
  <2>3. life[p] = "closed" /\ p \in ran
    BY <1>1, <2>2 DEF IndInv, Runs, Evidence
  <2> QED
    BY <1>1, <2>2, <2>3 DEF IndInv, LeaseInv, Lease, Settled
<1> QED
  BY <1>1, Inductive, PTL

-------------------------------------------------------------------------------
(* The stream implements SequentialStream.                                     *)

LEMMA SameExecutions ==
  ASSUME ran' \cap Streamers = ran \cap Streamers,
         \A q \in ran \cap Streamers : index'[q] = index[q] /\ using'[q] = using[q]
  PROVE  Executions' = Executions
BY DEF Executions

LEMMA KeepsExecutions ==
  ASSUME NEW p \in Owners,
         Starts(p) \/ MakeLease(p) \/ MakeLeaseFails(p) \/ GoesOn(p) \/ Fails(p) \/ Interrupted(p) \/ AdapterReturns(p)
           \/ Collect(p) \/ Report(p) \/ ReportFails(p) \/ Seal(p) \/ Around(p) \/ Ends(p)
  PROVE  ran' = ran
<1>1. CASE \/ Starts(p) \/ MakeLease(p) \/ MakeLeaseFails(p) \/ GoesOn(p) \/ Fails(p)
           \/ Around(p) \/ Ends(p)
  BY <1>1 DEF Starts, Acquire, Resume, MakeLease, MakeLeaseFails, GoesOn, Fails, Around, Ends, runVars
<1>2. CASE \/ Interrupted(p) \/ AdapterReturns(p) \/ Collect(p)
           \/ Report(p) \/ ReportFails(p) \/ Seal(p)
  BY <1>2 DEF Interrupted, AdapterReturns, Collect, Report, ReportFails, Seal
<1> QED
  BY <1>1, <1>2

LEMMA ExecuteStep ==
  ASSUME IndInv, NEW p \in Streamers, Run(p), UNCHANGED streamVars
  PROVE  Sequential!Execute(p)
<1>1. pc[p] = "ready" /\ ran' = ran \cup {p} /\ p \in Owners
  BY DEF Run, Step, Streamers
<1>2. p \notin ran /\ index[p] # NoTask /\ pending = index[p] /\ using[p] = candidate
  BY <1>1 DEF IndInv, Runs, Streams, Dispatched, InRun, Pcs
<1>3. \A q \in ran \cap Streamers : index[q] # pending /\ q # p
  BY <1>2 DEF IndInv, Streams
<1>4. Executions' = Executions \cup {[run |-> p, index |-> pending, candidate |-> candidate]}
  BY <1>1, <1>2 DEF Executions, streamVars
<1>5. \A x \in Executions : x.index # pending /\ x.run # p
  BY <1>3 DEF Executions
<1> QED
  BY <1>2, <1>4, <1>5 DEF Sequential!Execute, streamVars, ledger

LEMMA CompleteStep ==
  ASSUME IndInv, NEW p \in Streamers, RecordCompleted(p)
  PROVE  Sequential!Complete
<1>1. /\ pending = index[p] /\ report[p] \in Executed
      /\ completed' = completed + 1 /\ pending' = NoTask
      /\ UNCHANGED <<candidate, ran, index, using>>
  BY DEF RecordCompleted, Append, Evidence, runVars
<1>2. p \in ran
  BY <1>1 DEF IndInv, Runs, Streamers
<1>3. \E x \in Executions : x.index = pending
  <2>1. [run |-> p, index |-> index[p], candidate |-> using[p]] \in Executions
    BY <1>2 DEF Executions
  <2> QED
    BY <1>1, <2>1
<1>4. Executions' = Executions
  BY <1>1, SameExecutions
<1> QED
  BY <1>1, <1>3, <1>4 DEF Sequential!Complete

(* Promise: whatever is killed or fails, each task is executed at most once,   *)
(* in order, with the candidate approved before it.                            *)
THEOREM Implements == Spec => Promise
<1>1. Init => Sequential!Init
  BY DEF Init, RunInit, Sequential!Init, Executions
<1>2. ASSUME IndInv, [Next]_vars
      PROVE  [Sequential!Next]_<<completed, pending, candidate, Executions>>
  <2>1. CASE UNCHANGED vars
    BY <2>1, SameExecutions DEF vars, runVars, streamVars, ledger
  <2>2. ASSUME NEW p \in Streamers, Refuse(p) \/ DispatchLost(p)
        PROVE  Sequential!Dispatch \/ UNCHANGED <<completed, pending, candidate, Executions>>
    <3>1. Executions' = Executions
      BY <2>2, SameExecutions DEF Refuse, DispatchLost, runVars, streamVars
    <3> QED
      BY <2>2, <3>1 DEF Refuse, DispatchLost, Dispatchable, Sequential!Dispatch, streamVars, ledger
  <2>3. ASSUME NEW p \in Streamers, Dispatch(p) PROVE Sequential!Dispatch
    <3>1. p \notin ran
      BY <1>2, <2>3 DEF Dispatch, Start, Step, IndInv, Runs, Streamers
    <3>2. Executions' = Executions
      BY <1>2, <2>3, <3>1, SameExecutions DEF Dispatch, runVars, IndInv, TypeOK
    <3> QED
      BY <2>3, <3>2 DEF Dispatch, Dispatchable, Sequential!Dispatch
  <2>4. ASSUME NEW p \in Owners, Settles(p)
        PROVE  Sequential!Complete \/ UNCHANGED <<completed, pending, candidate, Executions>>
    <3>1. CASE RecordCompleted(p)
      BY <1>2, <3>1, CompleteStep DEF RecordCompleted
    <3>2. CASE RecordFails(p) \/ RecordUnknown(p) \/ UnknownLost(p)
      BY <3>2, SameExecutions DEF RecordFails, RecordUnknown, UnknownLost, runVars, streamVars, ledger
    <3> QED
      BY <2>4, <3>1, <3>2 DEF Settles
  <2>5. ASSUME NEW p \in Owners, Starts(p) \/ Works(p) \/ Around(p) \/ Ends(p), UNCHANGED streamVars
        PROVE  \/ p \in Streamers /\ Sequential!Execute(p)
               \/ UNCHANGED <<completed, pending, candidate, Executions>>
    <3>1. CASE Run(p) /\ p \in Streamers
      BY <1>2, <2>5, <3>1, ExecuteStep
    <3>2. CASE Run(p) /\ p \notin Streamers
      BY <2>5, <3>2, SameExecutions DEF Run, streamVars, ledger
    <3>3. CASE ~Run(p)
      <4>1. ran' = ran
        BY <2>5, <3>3, KeepsExecutions DEF Works
      <4> QED
        BY <2>5, <4>1, SameExecutions DEF streamVars, ledger
    <3> QED
      BY <3>1, <3>2, <3>3
  <2>6. ASSUME NEW c \in Candidates, Approve(c) PROVE Sequential!Approve(c)
    <3>1. Executions' = Executions
      BY <2>6, SameExecutions DEF Approve, runVars
    <3> QED
      BY <1>2, <2>6, <3>1 DEF Approve, Sequential!Approve, IndInv, TypeOK
  <2> QED
    BY <1>2, <2>1, <2>2, <2>3, <2>4, <2>5, <2>6 DEF Next, Sequential!Next
<1> QED
  BY <1>1, <1>2, Inductive, PTL DEF Spec, Promise, Sequential!Spec
================================================================================
