------------------------- MODULE ProposalLedgerProofs -------------------------
(* ProposalStore implements ProposalLedger, and what the assets hold was       *)
(* approved: the proofs of AtomicLedger and OnlyApproved.                      *)
EXTENDS ProposalStoreProofs, WellFoundedInduction

-------------------------------------------------------------------------------
(* Least and greatest positions.                                               *)
LEMMA Least ==
  ASSUME NEW T, T \subseteq Nat, T # {}
  PROVE  \E m \in T : \A n \in T : m <= n
<1> DEFINE R == OpToRel(<, Nat)
<1>1. IsWellFoundedOn(R, Nat)
  BY NatLessThanWellFounded
<1> HIDE DEF R
<1>2. PICK m \in T : \A n \in T : ~(<<n, m>> \in R)
  BY <1>1, WFMin
<1>3. \A n \in T : ~(n < m)
  BY <1>2 DEF R, OpToRel
<1> QED
  BY <1>3

LEMMA Greatest ==
  ASSUME NEW T, NEW b \in Nat, T \subseteq 1..b, T # {}
  PROVE  \E m \in T : \A n \in T : n <= m
<1> DEFINE U == {b - n : n \in T}
<1>1. \A n \in T : n \in Int /\ b - n \in Nat
  OBVIOUS
<1>6. U # {}
  OBVIOUS
<1>2. U \subseteq Nat
  BY <1>1
<1>3. PICK u \in U : \A v \in U : u <= v
  BY <1>2, <1>6, Least
<1>4. PICK m \in T : u = b - m
  OBVIOUS
<1>5. \A n \in T : b - m <= b - n
  BY <1>3, <1>4
<1> QED
  BY <1>1, <1>5
-------------------------------------------------------------------------------
(* The invariant.                                                              *)

(* Steps of a recovery, of whatever changes assets, and of an accept between   *)
(* its journal and its accepted file.                                          *)
Recovering(q) == pc[q] = "recover" \/ (pc[q] = "restore" /\ goal[q] = "recovered")
OnFiles(q) == InApply(q) \/ pc[q] \in Undoing \/ Recovering(q)
Moving == {"unlink", "drop", "write"}
Applying(q) == pc[q] \in {"replace", "index"} \/ (pc[q] \in Moving /\ goal[q] = "accepted")
Restoring(q) == pc[q] = "restore" /\ goal[q] = "accepted"

(* A journalled transaction that recovery would put back, and one that nobody  *)
(* is carrying out or putting back any more.                                   *)
Open(p) == txn[p] # Absent /\ ~Committed(p) /\ txn[p].changes # <<>>
Finishing(q, p) == (Applying(q) \/ Restoring(q)) /\ cur[q] = p
Orphaned(p) == Open(p) /\ \A q \in Procs : ~Finishing(q, p)

(* While one process rolls back or recovers no other one changes assets, and   *)
(* what a killed one left is recovered before another accept or rollback.      *)
Orderly == \A q, r \in Procs : q # r =>
  /\ pc[q] \in Undoing \/ Recovering(q) => ~OnFiles(r)
  /\ pc[q] = "down" /\ (\E p \in Proposals : Orphaned(p))
       => ~InApply(r) /\ pc[r] \notin Undoing

(* Whoever will finish an open transaction or put it back.                     *)
Minds(q, p) == \/ Finishing(q, p)
               \/ pc[q] = "down"
               \/ Recovering(q) /\ (p \in todo[q] \/ (pc[q] = "restore" /\ p = cur[q]))

(* All changes of one proposal found the same content of the same target.      *)
Agree(s) == \A i, j \in DOMAIN s : s[i].target = s[j].target => s[i].before = s[j].before

(* The journal of a plan.                                                      *)
JournalFor(s) == [i \in DOMAIN s |-> [target |-> s[i].target, had |-> s[i].before # Absent,
                                      before |-> s[i].before]]

Records == /\ \A d \in Dirs, p \in Proposals : Exists(d, p) =>
                box[d][p].ed \in Editions /\ Agree(box[d][p].applied)
           /\ \A q \in Procs : mem[q].ed \in Editions /\ Agree(mem[q].applied)

Journals ==
  /\ \A p \in Proposals : txn[p] # Absent =>
       /\ Agree(txn[p].changes)
       /\ \A i \in DOMAIN txn[p].changes :
            txn[p].changes[i].had <=> txn[p].changes[i].before # Absent
  /\ \A p, r \in Proposals : Open(p) /\ Open(r) => p = r

Minded == \A p \in Proposals : Open(p) => \E q \in Procs : Minds(q, p)

Unsettled(p) == ~Exists("accepted", p) /\ ~Exists("rejected", p)

(* A reviewer acts on a proposal nobody has settled, and puts a file that says *)
(* accepted or rejected back as it is.                                         *)
Reviews(q) ==
  /\ pc[q] \in {"lock", "plan"} \cup Planned => Unsettled(cur[q])
  /\ pc[q] \in Moving /\ goal[q] \in {"accepted", "rejected"} => Unsettled(cur[q])
  /\ pc[q] = "drop" => goal[q] \in {"accepted", "rejected"}
  /\ pc[q] \in {"drop", "write"} /\ goal[q] \in {"accepted", "rejected"}
       => mem[q].status = goal[q]
  /\ pc[q] = "write" /\ goal[q] \notin {"accepted", "rejected"}
       /\ mem[q].status \in {"accepted", "rejected"}
       => box[mem[q].status][cur[q]] = mem[q]

(* Of the first n changes of the plan, the last one of every target is there.  *)
Written(q, n) ==
  \A j \in DOMAIN plan[q] :
     j <= n /\ (\A k \in DOMAIN plan[q] : j < k /\ k <= n => plan[q][k].target # plan[q][j].target)
       => files[plan[q][j].target] = plan[q][j].after

(* The changes after the n-th are undone.                                      *)
Restored(q, n) ==
  \A j \in DOMAIN undo[q] : j > n => files[undo[q][j].target] = undo[q][j].before

(* ... but for the file that is being written.                                 *)
OthersRestored(q) ==
  \A j \in DOMAIN undo[q] : j > idx[q] /\ undo[q][j].target # undo[q][idx[q]].target
    => files[undo[q][j].target] = undo[q][j].before

(* The plan was made of the assets as they stand, seen through recovery, the   *)
(* journal is the plan's, and the files are as far as the step says.           *)
Applies(q) ==
  /\ pc[q] \in {"stage", "journal"} \/ Applying(q) =>
       plan[q] = PlanOf(cur[q], mem[q].ed, View)
  /\ Applying(q) => /\ txn[cur[q]] # Absent /\ txn[cur[q]].known
                    /\ txn[cur[q]].changes = JournalFor(plan[q])
                    /\ Written(q, IF pc[q] = "replace" THEN idx[q] - 1 ELSE Len(plan[q]))
  /\ pc[q] = "replace" => idx[q] <= Len(plan[q]) + 1
  /\ pc[q] \in Moving /\ goal[q] = "accepted" => mem[q].applied = Recorded(plan[q])
  /\ pc[q] \in {"row", "clean"} /\ goal[q] = "accepted" =>
       Exists("accepted", cur[q]) /\ txn[cur[q]] # Absent /\ txn[cur[q]].known

Undoes(q) == pc[q] \in Undoing =>
  /\ Exists("accepted", cur[q]) /\ box["accepted"][cur[q]] = mem[q]
  /\ mem[q].status = "accepted" /\ undo[q] = mem[q].applied
  /\ pc[q] = "undo" => Restored(q, idx[q])
  /\ pc[q] = "rewrite" => OthersRestored(q)
  /\ pc[q] = "reindex" => Restored(q, idx[q] - 1)

Restores(q) == pc[q] = "restore" =>
  /\ ~Committed(cur[q]) /\ undo[q] = JournalOf(cur[q]) /\ Restored(q, idx[q])

Acts(q) == Reviews(q) /\ Applies(q) /\ Undoes(q) /\ Restores(q)

LedgerInv == OfferInv /\ Records /\ Journals /\ Minded /\ \A q \in Procs : Acts(q)

(* The mapped variables of ProposalLedger that are not View or Standing, and   *)
(* what every step has to be.                                                  *)
OnRecord == [p \in Proposals |-> IF Exists("accepted", p) THEN box["accepted"][p].applied
                                                          ELSE <<>>]
Simulated == Ledger!Next \/ UNCHANGED <<View, Standing, OnRecord>>
-------------------------------------------------------------------------------
(* What the assets look like through recovery.                                 *)

HitBy(p, t) == \E i \in DOMAIN txn[p].changes : txn[p].changes[i].target = t

ViewFact == TypeOK /\ Journals =>
  /\ \A t \in Targets : (\A p \in Proposals : Open(p) => ~HitBy(p, t)) => View[t] = files[t]
  /\ \A p \in Proposals : Open(p) =>
       \A i \in DOMAIN txn[p].changes : View[txn[p].changes[i].target] = txn[p].changes[i].before

LEMMA ViewNow == ViewFact
<1> SUFFICES ASSUME TypeOK, Journals
             PROVE  /\ \A t \in Targets : (\A p \in Proposals : Open(p) => ~HitBy(p, t))
                                            => View[t] = files[t]
                    /\ \A p \in Proposals : Open(p) => \A i \in DOMAIN txn[p].changes :
                         View[txn[p].changes[i].target] = txn[p].changes[i].before
  BY DEF ViewFact
<1> DEFINE open(t) == {p \in Proposals : txn[p] # Absent /\ ~Committed(p)
                         /\ \E i \in DOMAIN txn[p].changes : txn[p].changes[i].target = t}
           hits(p, t) == {i \in DOMAIN txn[p].changes : txn[p].changes[i].target = t}
           last(p, t) == CHOOSE i \in hits(p, t) : \A j \in hits(p, t) : i <= j
           who(t) == CHOOSE r \in open(t) : TRUE
<1>1. \A t \in Targets : View[t] = IF open(t) = {} THEN files[t]
                                   ELSE txn[who(t)].changes[last(who(t), t)].before
  BY DEF View
<1>2. \A p \in Proposals : txn[p] # Absent => txn[p].changes \in Seq(JournalChange)
  BY DEF TypeOK, Transaction
<1>3. ASSUME NEW p \in Proposals, NEW t \in Targets
      PROVE  p \in open(t) <=> Open(p) /\ HitBy(p, t)
  <2>1. txn[p] # Absent /\ HitBy(p, t) => txn[p].changes # <<>>
    BY DEF HitBy
  <2> QED
    BY <2>1 DEF Open, HitBy
<1>4. ASSUME NEW t \in Targets, \A p \in Proposals : Open(p) => ~HitBy(p, t)
      PROVE  View[t] = files[t]
  <2>1. open(t) = {}
    BY <1>3, <1>4
  <2> QED
    BY <1>1, <2>1
<1>5. ASSUME NEW p \in Proposals, Open(p), NEW i \in DOMAIN txn[p].changes
      PROVE  View[txn[p].changes[i].target] = txn[p].changes[i].before
  <2> DEFINE t == txn[p].changes[i].target
  <2>1. txn[p] # Absent /\ txn[p].changes \in Seq(JournalChange) /\ t \in Targets
    <3>1. txn[p] # Absent /\ txn[p].changes \in Seq(JournalChange)
      BY <1>2, <1>5 DEF Open
    <3>2. txn[p].changes[i] \in JournalChange
      BY <3>1
    <3> QED
      BY <3>1, <3>2 DEF JournalChange
  <2>2. open(t) = {p}
    <3>1. p \in open(t)
      BY <1>3, <1>5, <2>1 DEF HitBy
    <3>2. \A r \in open(t) : r = p
      BY <1>3, <1>5, <2>1 DEF Journals
    <3> QED
      BY <3>1, <3>2
  <2>3. who(t) = p
    BY <2>2
  <2>4. last(p, t) \in hits(p, t)
    <3>1. hits(p, t) \subseteq Nat /\ i \in hits(p, t)
      BY <2>1
    <3>2. \E m \in hits(p, t) : \A n \in hits(p, t) : m <= n
      BY <3>1, Least
    <3> QED
      BY <3>2
  <2> HIDE DEF last, who, open
  <2>5. txn[p].changes[last(p, t)].before = txn[p].changes[i].before
    BY <2>1, <2>4 DEF Journals, Agree
  <2> QED
    BY <1>1, <2>1, <2>2, <2>3, <2>5
<1> QED
  BY <1>4, <1>5

LEMMA ViewIsFunction == View = [t \in Targets |-> View[t]]
<1> DEFINE Body(t) ==
      LET open == {p \in Proposals : txn[p] # Absent /\ ~Committed(p)
                     /\ \E i \in DOMAIN txn[p].changes : txn[p].changes[i].target = t}
      IN  IF open = {} THEN files[t]
          ELSE LET p == CHOOSE r \in open : TRUE
                   hits == {i \in DOMAIN txn[p].changes : txn[p].changes[i].target = t}
               IN  txn[p].changes[CHOOSE i \in hits : \A j \in hits : i <= j].before
<1>1. View = [t \in Targets |-> Body(t)]
  BY DEF View
<1> HIDE DEF Body
<1> QED
  BY <1>1

LEMMA ViewIsFunctionThen == View' = [t \in Targets |-> View'[t]]
<1>1. (View = [t \in Targets |-> View[t]])'
  BY ViewIsFunction, PTL
<1> QED
  BY <1>1

LEMMA ViewThen == ViewFact'
  BY ViewNow, PTL
-------------------------------------------------------------------------------
(* What a step leaves alone.                                                   *)

Separate(q) == \A r \in Procs \ {q} :
  /\ pc'[r] = pc[r] /\ goal'[r] = goal[r] /\ cur'[r] = cur[r] /\ mem'[r] = mem[r]
  /\ plan'[r] = plan[r] /\ undo'[r] = undo[r] /\ idx'[r] = idx[r] /\ todo'[r] = todo[r]

LEMMA LeaveSeparate ==
  ASSUME TypeOK, NEW q \in Procs, NEW to, Leave(q, to)
  PROVE  Separate(q)
  BY DEF TypeOK, Leave, Separate

LEMMA StepsSeparate ==
  ASSUME TypeOK, NEW q \in Procs, LoadOp(q) \/ Work(q) \/ Start(q) \/ Fault(q) \/ Crash(q)
  PROVE  Separate(q)
<1>1. CASE LoadOp(q)
  <2>1. ASSUME NEW op, NEW p, NEW rec, NEW to, NEW next, Load(q, op, p, rec, to, next),
               \/ UNCHANGED <<undo, idx>>
               \/ \E u, i : undo' = [undo EXCEPT ![q] = u] /\ idx' = [idx EXCEPT ![q] = i]
        PROVE  Separate(q)
    BY <2>1 DEF TypeOK, Load, Separate
  <2>2. CASE LoadAccept(q)
    BY <2>1, <2>2 DEF LoadAccept
  <2>3. CASE LoadReject(q)
    BY <2>1, <2>3 DEF LoadReject
  <2>4. CASE LoadEdit(q)
    BY <2>1, <2>4 DEF LoadEdit
  <2>5. CASE LoadFeedback(q)
    BY <2>1, <2>5 DEF LoadFeedback
  <2>6. CASE LoadRollback(q)
    BY <2>1, <2>6 DEF LoadRollback
  <2> QED
    BY <1>1, <2>2, <2>3, <2>4, <2>5, <2>6 DEF LoadOp
<1>2. CASE ApplyStep(q)
  <2>1. CASE AcquireLock(q) \/ PlanChanges(q) \/ StageChanges(q) \/ WriteJournal(q)
             \/ JournalFails(q)
    BY <2>1 DEF TypeOK, AcquireLock, PlanChanges, StageChanges, WriteJournal, JournalFails,
                Step, Separate
  <2>2. CASE ReplaceTarget(q) \/ ReplaceFails(q) \/ CommitFiles(q) \/ IndexTarget(q)
             \/ RecordApplied(q)
    BY <2>2 DEF TypeOK, ReplaceTarget, ReplaceFails, BeginRestore, CommitFiles, IndexTarget,
                RecordApplied, Step, Separate
  <2>3. CASE LockTimeout(q) \/ CleanUp(q) \/ RaiseOut(q)
    BY <2>3, LeaveSeparate DEF LockTimeout, CleanUp, RaiseOut
  <2> QED
    BY <1>2, <2>1, <2>2, <2>3 DEF ApplyStep
<1>3. CASE MoveStep(q)
  <2>1. CASE MoveUnlink(q) \/ MoveDropRow(q) \/ WriteProposal(q)
    BY <2>1 DEF TypeOK, MoveUnlink, MoveDropRow, WriteProposal, Step, Separate
  <2>2. CASE IndexProposal(q)
    <3>1. CASE Leave(q, "idle")
      BY <3>1, LeaveSeparate
    <3>2. CASE /\ pc' = [pc EXCEPT ![q] = "clean"]
               /\ UNCHANGED <<goal, cur, mem, plan, undo, idx, todo>>
      BY <3>2 DEF TypeOK, Separate
    <3> QED
      BY <2>2, <3>1, <3>2 DEF IndexProposal
  <2> QED
    BY <1>3, <2>1, <2>2 DEF MoveStep
<1>4. CASE UndoStep(q)
  BY <1>4 DEF UndoStep, Truncate, UndoTarget, UndoIndex, MarkRolledBack, Step, TypeOK, Separate
<1>5. CASE RecoverStep(q)
  <2>1. CASE RestoreTarget(q) \/ RestoreDone(q) \/ DiscardCommitted(q) \/ RestoreInterrupted(q)
    BY <2>1 DEF RestoreTarget, RestoreDone, DiscardCommitted, RestoreInterrupted, BeginRestore,
                Step, TypeOK, Separate
  <2>2. CASE RecoveryDone(q)
    BY <2>2, LeaveSeparate DEF RecoveryDone
  <2> QED
    BY <1>5, <2>1, <2>2 DEF RecoverStep
<1>6. CASE Start(q)
  BY <1>6 DEF Start, TypeOK, Separate
<1>7. CASE Fault(q)
  <2>1. CASE Leave(q, "idle")
    BY <2>1, LeaveSeparate
  <2>2. CASE BeginRestore(q, cur[q], "accepted") /\ UNCHANGED <<mem, plan, todo>>
    BY <2>2 DEF TypeOK, BeginRestore, Separate
  <2>3. CASE /\ pc' = [pc EXCEPT ![q] = "release"]
             /\ UNCHANGED <<goal, cur, mem, plan, undo, idx, todo>>
    BY <2>3 DEF TypeOK, Separate
  <2> QED
    BY <1>7, <2>1, <2>2, <2>3 DEF Fault
<1>8. CASE Crash(q)
  BY <1>8, LeaveSeparate DEF Crash
<1> QED
  BY <1>1, <1>2, <1>3, <1>4, <1>5, <1>6, <1>7, <1>8 DEF Work

(* At most one process changes assets.                                         *)
LEMMA Alone ==
  ASSUME IndInv, Orderly, NEW q \in Procs, NEW r \in Procs, q # r, OnFiles(q)
  PROVE  ~OnFiles(r)
<1>1. InApply(q) => ~InApply(r)
  BY DEF IndInv, ApplyExclusive
<1> QED
  BY <1>1 DEF Orderly, OnFiles

(* While it accepts or rolls back, nothing is open but what it has in hand.    *)
LEMMA OpenIsOwn ==
  ASSUME LedgerInv, Orderly, NEW q \in Procs, InApply(q) \/ pc[q] \in Undoing,
         NEW p \in Proposals, Open(p)
  PROVE  Finishing(q, p)
<1>1. IndInv /\ OnFiles(q) /\ ~Recovering(q) /\ pc[q] # "down"
  BY DEF LedgerInv, OfferInv, OnFiles, InApply, Undoing, Recovering
<1>2. \A r \in Procs \ {q} : ~Finishing(r, p) /\ ~Recovering(r)
  <2> TAKE r \in Procs \ {q}
  <2>1. ~OnFiles(r)
    BY <1>1, Alone
  <2> QED
    BY <2>1, <1>1 DEF OnFiles, InApply, Finishing, Applying, Restoring, Moving, Recovering, IndInv,
                      AtStep
<1>3. PICK r \in Procs : Minds(r, p)
  BY DEF LedgerInv, Minded
<1>4. CASE r = q
  BY <1>1, <1>3, <1>4 DEF Minds
<1>5. CASE r # q
  <2>1. pc[r] = "down"
    BY <1>2, <1>3, <1>5 DEF Minds
  <2>2. ~Orphaned(p)
    BY <1>5, <2>1 DEF Orderly
  <2> QED
    BY <1>2, <2>2 DEF Orphaned
<1> QED
  BY <1>4, <1>5

(* The assets look the same when no transaction opens or closes and only       *)
(* files that an open one will replace or put back are written.                *)
LEMMA SameView ==
  ASSUME TypeOK, TypeOK', Journals, Journals',
         \A p \in Proposals : Open(p)' <=> Open(p),
         \A p \in Proposals : Open(p) => txn'[p].changes = txn[p].changes,
         \A t \in Targets : files'[t] = files[t] \/ \E p \in Proposals : Open(p) /\ HitBy(p, t)
  PROVE  View' = View
<1>1. ASSUME NEW t \in Targets PROVE View'[t] = View[t]
  <2>1. CASE \E p \in Proposals : Open(p) /\ HitBy(p, t)
    <3>1. PICK p \in Proposals : Open(p) /\ HitBy(p, t)
      BY <2>1
    <3>2. PICK i \in DOMAIN txn[p].changes : txn[p].changes[i].target = t
      BY <3>1 DEF HitBy
    <3>3. View[t] = txn[p].changes[i].before
      BY <3>1, <3>2, ViewNow DEF ViewFact
    <3>4. View'[t] = txn'[p].changes[i].before
      BY <3>1, <3>2, ViewThen DEF ViewFact
    <3> QED
      BY <3>1, <3>3, <3>4
  <2>2. CASE ~\E p \in Proposals : Open(p) /\ HitBy(p, t)
    <3>1. View[t] = files[t]
      BY <2>2, ViewNow DEF ViewFact
    <3>2. \A p \in Proposals : Open(p)' => ~HitBy(p, t)'
      BY <2>2 DEF HitBy
    <3>3. View'[t] = files'[t]
      BY <3>2, ViewThen DEF ViewFact
    <3> QED
      BY <2>2, <3>1, <3>3
  <2> QED
    BY <2>1, <2>2
<1> QED
  BY <1>1, ViewIsFunction, ViewIsFunctionThen

LEMMA SameStanding ==
  ASSUME \A p \in Proposals : /\ Exists("accepted", p)' <=> Exists("accepted", p)
                              /\ Exists("rejected", p)' <=> Exists("rejected", p)
                              /\ Exists("accepted", p) => box'["accepted"][p] = box["accepted"][p]
  PROVE  UNCHANGED <<Standing, OnRecord>>
  BY DEF Standing, OnRecord

(* Nobody else is affected by a step of a process that changes assets alone,   *)
(* or changes none.                                                            *)
Calm == /\ UNCHANGED <<files, txn>> /\ View' = View
        /\ \A p \in Proposals : Exists("accepted", p)' <=> Exists("accepted", p)

LEMMA OthersAct ==
  ASSUME OneReviewer, LedgerInv, Orderly, NEW q \in Procs, Separate(q),
         UNCHANGED box \/ (OwnFile(q) /\ cur[q] \in Desk[q]), Calm \/ OnFiles(q),
         NEW r \in Procs \ {q}
  PROVE  Acts(r)'
<1>1. /\ pc'[r] = pc[r] /\ goal'[r] = goal[r] /\ cur'[r] = cur[r] /\ mem'[r] = mem[r]
      /\ plan'[r] = plan[r] /\ undo'[r] = undo[r] /\ idx'[r] = idx[r]
  BY DEF Separate
<1>2. IndInv /\ Acts(r) /\ Knows(r) /\ AtStep(r)
  BY DEF LedgerInv, OfferInv, IndInv
<1>3. pc[r] \in Busy => \A d \in Dirs : box'[d][cur[r]] = box[d][cur[r]]
  <2> SUFFICES ASSUME pc[r] \in Busy PROVE \A d \in Dirs : box'[d][cur[r]] = box[d][cur[r]]
    OBVIOUS
  <2>1. cur[r] \in Desk[r] /\ cur[r] \in Proposals
    BY <1>2, StoreAssumption DEF Knows
  <2> QED
    BY <2>1 DEF OneReviewer, OwnFile
<1>4. Reviews(r)'
  <2>1. CASE pc[r] \in Busy
    <3>1. Unsettled(cur[r])' <=> Unsettled(cur[r])
      BY <1>1, <1>3, <2>1 DEF Unsettled, Exists, Dirs
    <3>2. \A s \in {"accepted", "rejected"} : box'[s][cur[r]] = box[s][cur[r]]
      BY <1>3, <2>1 DEF Dirs
    <3>3. Reviews(r)
      BY <1>2 DEF Acts
    <3> QED
      BY <1>1, <3>1, <3>2, <3>3 DEF Reviews, Moving, Planned
  <2>2. CASE pc[r] \notin Busy
    BY <1>1, <2>2 DEF Reviews, Busy, Moving, Planned
  <2> QED
    BY <2>1, <2>2
<1>5. OnFiles(r) => Calm
  BY <1>2, Alone
<1>6. CASE ~OnFiles(r)
  <2>1. Applies(r)' /\ Undoes(r)' /\ Restores(r)'
    BY <1>1, <1>2, <1>6 DEF OnFiles, InApply, Recovering, Applies, Applying, Moving, Undoes,
                            Undoing, Restores, AtStep
  <2> QED
    BY <1>4, <2>1 DEF Acts
<1>7. CASE OnFiles(r)
  <2>1. UNCHANGED <<files, txn, View>>
    BY <1>5, <1>7 DEF Calm
  <2>2. cur[r] \in Proposals => (box'["accepted"][cur[r]] # Absent <=> Exists("accepted", cur[r]))
    BY <1>5, <1>7 DEF Calm, Exists
  <2>6. pc[r] \in Steps /\ Applies(r) /\ Restores(r)
    BY <1>2 DEF Acts, IndInv, TypeOK
  <2>7. \A n \in Int : Written(r, n)' <=> Written(r, n)
    BY <1>1, <2>1 DEF Written
  <2>8. Applying(r)' <=> Applying(r)
    BY <1>1 DEF Applying, Moving
  <2>9. Applying(r) => txn[cur[r]]' = txn[cur[r]]
    BY <1>1, <2>1
  <2>3. Applies(r)'
    <3>1. (pc[r] \in {"stage", "journal"} \/ Applying(r)
             => plan[r] = PlanOf(cur[r], mem[r].ed, View))'
      BY <1>1, <2>1, <2>6, <2>8 DEF Applies
    <3>2. (Applying(r) => /\ txn[cur[r]] # Absent /\ txn[cur[r]].known
                          /\ txn[cur[r]].changes = JournalFor(plan[r])
                          /\ Written(r, IF pc[r] = "replace" THEN idx[r] - 1 ELSE Len(plan[r])))'
      BY <1>1, <2>1, <2>6, <2>8 DEF Applies, Written, JournalFor
    <3>3. (/\ pc[r] = "replace" => idx[r] <= Len(plan[r]) + 1
           /\ pc[r] \in Moving /\ goal[r] = "accepted" => mem[r].applied = Recorded(plan[r]))'
      BY <1>1, <2>6 DEF Applies, Moving
    <3>4. (pc[r] \in {"row", "clean"} /\ goal[r] = "accepted" =>
             Exists("accepted", cur[r]) /\ txn[cur[r]] # Absent /\ txn[cur[r]].known)'
      <4> SUFFICES ASSUME pc[r] \in {"row", "clean"}, goal[r] = "accepted"
                   PROVE  /\ box'["accepted"][cur[r]] # Absent
                          /\ txn[cur[r]] # Absent /\ txn[cur[r]].known
        BY <1>1, <2>1 DEF Exists
      <4>1. cur[r] \in Proposals
        BY <1>2 DEF AtStep
      <4>2. Exists("accepted", cur[r]) /\ txn[cur[r]] # Absent /\ txn[cur[r]].known
        BY <2>6 DEF Applies
      <4> QED
        BY <2>2, <4>1, <4>2
    <3> QED
      BY <3>1, <3>2, <3>3, <3>4 DEF Applies, Applying, Moving
  <2>4. Undoes(r)'
    <3>1. pc[r] \in Undoing => box'["accepted"][cur[r]] = box["accepted"][cur[r]]
      BY <1>3 DEF Busy, Dirs
    <3> QED
      BY <1>1, <1>2, <2>1, <3>1 DEF Acts, Undoes, Undoing, Restored, OthersRestored, AtStep, Exists
  <2>5. Restores(r)'
    <3>1. (undo[r] = JournalOf(cur[r]))' <=> undo[r] = JournalOf(cur[r])
      BY <1>1, <2>1 DEF JournalOf
    <3>2. Restored(r, idx[r])' <=> Restored(r, idx[r])
      BY <1>1, <2>1 DEF Restored
    <3>3. pc[r] = "restore" => ~Committed(cur[r])'
      <4>1. pc[r] = "restore" => cur[r] \in Proposals /\ ~Committed(cur[r])
        BY <1>2, <2>6 DEF Restores, AtStep
      <4> QED
        BY <1>1, <2>1, <2>2, <4>1 DEF Committed, Exists
    <3> QED
      BY <1>1, <2>6, <3>1, <3>2, <3>3 DEF Restores
  <2> QED
    BY <1>4, <2>3, <2>4, <2>5 DEF Acts
<1> QED
  BY <1>6, <1>7

(* An open transaction keeps whoever minds it.                                 *)
LEMMA StillMinded ==
  ASSUME Minded, NEW q \in Procs, Separate(q),
         \A p \in Proposals : Open(p)' => \/ Minds(q, p)'
                                          \/ Open(p) /\ ~Minds(q, p)
  PROVE  Minded'
<1> SUFFICES ASSUME NEW p \in Proposals, Open(p)' PROVE \E r \in Procs : Minds(r, p)'
  BY DEF Minded
<1>1. CASE Minds(q, p)'
  BY <1>1
<1>2. CASE Open(p) /\ ~Minds(q, p)
  <2>1. PICK r \in Procs : Minds(r, p)
    BY <1>2 DEF Minded
  <2>2. r # q
    BY <1>2, <2>1
  <2>3. Minds(r, p)'
    BY <2>1, <2>2 DEF Separate, Minds, Finishing, Applying, Restoring, Recovering, Moving
  <2> QED
    BY <2>3
<1> QED
  BY <1>1, <1>2
-------------------------------------------------------------------------------
(* Putting a step together.                                                    *)

LEMMA RecordsKept ==
  ASSUME Records, NEW q \in Procs, Separate(q),
         mem'[q].ed \in Editions, Agree(mem'[q].applied),
         \A d \in Dirs, p \in Proposals : box'[d][p] # Absent =>
            box'[d][p] = box[d][p] \/ (box'[d][p].ed \in Editions /\ Agree(box'[d][p].applied))
  PROVE  Records'
<1>1. \A d \in Dirs, p \in Proposals : box'[d][p] # Absent =>
         box'[d][p].ed \in Editions /\ Agree(box'[d][p].applied)
  BY DEF Records, Exists
<1>2. \A r \in Procs : mem'[r].ed \in Editions /\ Agree(mem'[r].applied)
  BY DEF Records, Separate
<1> QED
  BY <1>1, <1>2 DEF Records, Exists, Agree

LEMMA StepKeeps ==
  ASSUME OneReviewer, LedgerInv, Orderly, OfferInv', NEW q \in Procs, Separate(q),
         UNCHANGED box \/ (OwnFile(q) /\ cur[q] \in Desk[q]), Calm \/ OnFiles(q),
         Records', Journals', Acts(q)',
         \A p \in Proposals : Open(p)' => \/ Minds(q, p)'
                                          \/ Open(p) /\ ~Minds(q, p)
  PROVE  LedgerInv'
<1>1. \A r \in Procs : Acts(r)'
  BY OthersAct
<1>2. Minded'
  BY StillMinded DEF LedgerInv
<1> QED
  BY <1>1, <1>2 DEF LedgerInv

(* Steps that leave the files, the proposals and the journals alone.           *)
LEMMA NoDisk ==
  ASSUME UNCHANGED <<files, box, txn>>
  PROVE  /\ Calm /\ UNCHANGED <<View, Standing, OnRecord>>
         /\ Journals <=> Journals'
         /\ \A p \in Proposals : Open(p)' <=> Open(p)
<1>1. UNCHANGED View
  BY DEF View, Committed, Exists
<1>2. UNCHANGED <<Standing, OnRecord>>
  BY DEF Standing, OnRecord, Exists
<1>3. \A p \in Proposals : Open(p)' <=> Open(p)
  BY DEF Open, Committed, Exists
<1>4. Journals <=> Journals'
  BY <1>3 DEF Journals
<1> QED
  BY <1>1, <1>2, <1>3, <1>4 DEF Calm, Exists

LEMMA NoDiskKeeps ==
  ASSUME OneReviewer, LedgerInv, Orderly, OfferInv', NEW q \in Procs, Separate(q),
         UNCHANGED <<files, box, txn>>, Acts(q)',
         mem'[q] = mem[q] \/ (mem'[q].ed \in Editions /\ Agree(mem'[q].applied)),
         \A p \in Proposals : Open(p) /\ Minds(q, p) => Minds(q, p)'
  PROVE  LedgerInv' /\ Simulated
<1>1. /\ Calm /\ UNCHANGED <<View, Standing, OnRecord>> /\ Journals'
      /\ \A p \in Proposals : Open(p)' <=> Open(p)
  BY NoDisk DEF LedgerInv
<1>2. mem'[q].ed \in Editions /\ Agree(mem'[q].applied)
  BY DEF LedgerInv, Records
<1>3. Records'
  BY <1>2, RecordsKept DEF LedgerInv
<1>4. LedgerInv'
  BY <1>1, <1>3, StepKeeps
<1> QED
  BY <1>1, <1>4 DEF Simulated

(* Between operations a process has nothing to answer for.                     *)
Out == {"idle", "down", "recover", "release"}

LEMMA OutActs ==
  ASSUME NEW q \in Procs, pc'[q] \in Out
  PROVE  Acts(q)'
  BY DEF Acts, Reviews, Applies, Undoes, Restores, Out, Planned, Moving, Undoing, Applying
-------------------------------------------------------------------------------
(* Steps that write no file, proposal or journal.                              *)

LEMMA NoRecFits == NoRec.ed \in Editions /\ Agree(NoRec.applied)
  BY MaxEditsAssumption DEF NoRec, Editions, Agree

(* What a process in no position to finish or recover anything gives up.       *)
LEMMA LeaveLedger ==
  ASSUME OneReviewer, LedgerInv, Orderly, OfferInv', NEW q \in Procs, NEW to \in {"idle", "down"},
         Leave(q, to), Separate(q), UNCHANGED <<files, box, txn>>,
         to = "idle" => \A p \in Proposals : ~(Open(p) /\ Minds(q, p))
  PROVE  LedgerInv' /\ Simulated
<1>1. pc'[q] = to /\ mem'[q] = NoRec
  BY DEF LedgerInv, OfferInv, IndInv, TypeOK, Leave
<1>2. Acts(q)'
  BY <1>1, OutActs DEF Out
<1>3. \A p \in Proposals : Open(p) /\ Minds(q, p) => Minds(q, p)'
  BY <1>1 DEF Minds
<1> QED
  BY <1>1, <1>2, <1>3, NoRecFits, NoDiskKeeps

LEMMA ReleaseLedger ==
  ASSUME OneReviewer, LedgerInv, Orderly, OfferInv', NEW q \in Procs, Separate(q),
         pc' = [pc EXCEPT ![q] = "release"], UNCHANGED mem, UNCHANGED <<files, box, txn>>,
         \A p \in Proposals : ~(Open(p) /\ Minds(q, p))
  PROVE  LedgerInv' /\ Simulated
<1>1. pc'[q] = "release" /\ mem'[q] = mem[q]
  BY DEF LedgerInv, OfferInv, IndInv, TypeOK
<1>2. Acts(q)'
  BY <1>1, OutActs DEF Out
<1> QED
  BY <1>1, <1>2, NoDiskKeeps

(* Whoever is not accepting, restoring, recovering or down minds nothing.      *)
LEMMA MindsNothing ==
  ASSUME NEW q \in Procs, ~Applying(q), pc[q] \notin {"down", "recover", "restore"}
  PROVE  \A p \in Proposals : ~Minds(q, p)
  BY DEF Minds, Finishing, Restoring, Recovering

LEMMA EndsLedger ==
  ASSUME OneReviewer, LedgerInv, Orderly, OfferInv', NEW q \in Procs,
         LockTimeout(q) \/ JournalFails(q) \/ RaiseOut(q) \/ RecoveryDone(q) \/ Crash(q)
  PROVE  LedgerInv' /\ Simulated
<1>1. Separate(q) /\ UNCHANGED <<files, box, txn>>
  <2>1. TypeOK
    BY DEF LedgerInv, OfferInv, IndInv
  <2>2. Separate(q)
    BY <2>1, StepsSeparate DEF Work, ApplyStep, RecoverStep
  <2> QED
    BY <2>2 DEF LockTimeout, JournalFails, RaiseOut, RecoveryDone, Crash, disk
<1>2. CASE LockTimeout(q) \/ RaiseOut(q)
  <2>1. pc[q] \in {"lock", "release"} /\ Leave(q, "idle")
    BY <1>2 DEF LockTimeout, RaiseOut
  <2>2. \A p \in Proposals : ~Minds(q, p)
    BY <2>1, MindsNothing DEF Applying, Moving
  <2> QED
    BY <1>1, <2>1, <2>2, LeaveLedger
<1>3. CASE JournalFails(q)
  <2>1. pc[q] = "journal" /\ pc' = [pc EXCEPT ![q] = "release"] /\ UNCHANGED mem
    BY <1>3 DEF JournalFails, Step
  <2>2. \A p \in Proposals : ~Minds(q, p)
    BY <2>1, MindsNothing DEF Applying, Moving
  <2> QED
    BY <1>1, <2>1, <2>2, ReleaseLedger
<1>4. CASE RecoveryDone(q)
  <2>1. pc[q] = "recover" /\ todo[q] = {} /\ Leave(q, "idle")
    BY <1>4 DEF RecoveryDone
  <2>2. \A p \in Proposals : ~Minds(q, p)
    BY <2>1 DEF Minds, Finishing, Applying, Moving, Restoring
  <2> QED
    BY <1>1, <2>1, <2>2, LeaveLedger
<1>5. CASE Crash(q)
  BY <1>1, <1>5, LeaveLedger DEF Crash
<1> QED
  BY <1>2, <1>3, <1>4, <1>5

LEMMA StartLedger ==
  ASSUME OneReviewer, LedgerInv, Orderly, OfferInv', NEW q \in Procs, Start(q)
  PROVE  LedgerInv' /\ Simulated
<1>1. /\ pc[q] \in {"down", "idle"} /\ pc'[q] = "recover" /\ UNCHANGED <<mem, txn>>
      /\ todo'[q] = {p \in Proposals : txn[p] # Absent}
  BY DEF LedgerInv, OfferInv, IndInv, TypeOK, Start, disk
<1>2. Separate(q) /\ UNCHANGED <<files, box, txn>>
  BY StepsSeparate DEF LedgerInv, OfferInv, IndInv, Start, disk
<1>3. Acts(q)'
  BY <1>1, OutActs DEF Out
<1>4. \A p \in Proposals : Open(p) => Minds(q, p)'
  BY <1>1 DEF Open, Minds, Recovering
<1> QED
  BY <1>1, <1>2, <1>3, <1>4, NoDiskKeeps

(* A failed or interrupted accept begins to put its files back.                *)
LEMMA BeginLedger ==
  ASSUME OneReviewer, LedgerInv, Orderly, OfferInv', NEW q \in Procs, NEW p \in Proposals,
         NEW to \in {"accepted", "recovered"}, BeginRestore(q, p, to), Separate(q),
         UNCHANGED <<files, box, txn, mem>>, ~Committed(p),
         \A r \in Proposals : Open(r) /\ Minds(q, r) =>
            r = p \/ (to = "recovered" /\ r \in todo'[q])
  PROVE  LedgerInv' /\ Simulated
<1>0. TypeOK
  BY DEF LedgerInv, OfferInv, IndInv
<1>1. /\ pc'[q] = "restore" /\ goal'[q] = to /\ cur'[q] = p /\ mem'[q] = mem[q]
      /\ undo'[q] = JournalOf(p) /\ idx'[q] = Len(JournalOf(p))
  BY <1>0 DEF TypeOK, BeginRestore
<1>2. JournalOf(p) \in Seq(JournalChange)
  BY <1>0, JournalOfType
<1>3. Restores(q)'
  <2>1. (undo[q] = JournalOf(cur[q]))'
    BY <1>1 DEF JournalOf
  <2>2. Restored(q, idx[q])'
    <3>1. \A j \in DOMAIN JournalOf(p) : ~(j > Len(JournalOf(p)))
      BY <1>2
    <3> QED
      BY <1>1, <3>1 DEF Restored
  <2>3. ~Committed(cur[q])'
    BY <1>1 DEF Committed, Exists
  <2> QED
    BY <2>1, <2>2, <2>3 DEF Restores
<1>4. Acts(q)'
  BY <1>1, <1>3 DEF Acts, Reviews, Applies, Undoes, Planned, Moving, Undoing, Applying
<1>5. \A r \in Proposals : Open(r) /\ Minds(q, r) => Minds(q, r)'
  BY <1>1 DEF Minds, Finishing, Restoring, Recovering
<1> QED
  BY <1>1, <1>4, <1>5, NoDiskKeeps

(* A proposal that is being accepted.                                          *)
LEMMA InHand ==
  ASSUME LedgerInv, NEW q \in Procs, Applying(q)
  PROVE  /\ cur[q] \in Desk[q] /\ cur[q] \in Proposals /\ goal[q] = "accepted"
         /\ Unsettled(cur[q]) /\ ~Committed(cur[q]) /\ InApply(q) /\ OnFiles(q)
<1>1. /\ AtStep(q) /\ Knows(q) /\ Reviews(q)
  BY DEF LedgerInv, OfferInv, IndInv, Acts
<1>2. pc[q] \in Busy /\ pc[q] \notin {"idle", "down", "recover"} /\ goal[q] = "accepted"
  BY <1>1 DEF Applying, Moving, Busy, Planned, AtStep
<1>3. cur[q] \in Desk[q] /\ cur[q] \in Proposals
  BY <1>1, <1>2 DEF AtStep, Knows
<1>4. Unsettled(cur[q])
  BY <1>1, <1>2 DEF Reviews, Applying, Moving, Planned
<1>5. InApply(q)
  BY <1>2 DEF Applying, Moving, InApply
<1> QED
  BY <1>2, <1>3, <1>4, <1>5 DEF Unsettled, Committed, OnFiles

LEMMA RestoresLedger ==
  ASSUME OneReviewer, LedgerInv, Orderly, OfferInv', NEW q \in Procs,
         ReplaceFails(q) \/ RestoreInterrupted(q)
  PROVE  LedgerInv' /\ Simulated
<1>1. TypeOK /\ Separate(q) /\ UNCHANGED <<files, box, txn, mem>>
  <2>1. TypeOK
    BY DEF LedgerInv, OfferInv, IndInv
  <2> QED
    BY <2>1, StepsSeparate DEF Work, ApplyStep, RecoverStep, ReplaceFails, RestoreInterrupted, disk
<1>2. CASE ReplaceFails(q)
  <2>1. Applying(q) /\ pc[q] = "replace" /\ BeginRestore(q, cur[q], "accepted")
    BY <1>2 DEF ReplaceFails, Applying
  <2>2. cur[q] \in Proposals /\ ~Committed(cur[q])
    BY <2>1, InHand
  <2>3. \A r \in Proposals : Minds(q, r) => r = cur[q]
    BY <2>1 DEF Minds, Finishing, Recovering
  <2> QED
    BY <1>1, <2>1, <2>2, <2>3, BeginLedger
<1>3. CASE RestoreInterrupted(q)
  <2>1. PICK p \in todo[q] : /\ pc[q] = "recover" /\ ~Committed(p)
                             /\ BeginRestore(q, p, "recovered")
                             /\ todo' = [todo EXCEPT ![q] = @ \ {p}]
    BY <1>3 DEF RestoreInterrupted
  <2>2. p \in Proposals /\ todo'[q] = todo[q] \ {p}
    BY <1>1, <2>1 DEF TypeOK
  <2>3. \A r \in Proposals : Minds(q, r) => r = p \/ r \in todo'[q]
    BY <2>1, <2>2 DEF Minds, Finishing, Applying, Moving, Restoring, Recovering
  <2> QED
    BY <1>1, <2>1, <2>2, <2>3, BeginLedger
<1> QED
  BY <1>2, <1>3

LEMMA FaultLedger ==
  ASSUME OneReviewer, LedgerInv, Orderly, OfferInv', NEW q \in Procs, Fault(q)
  PROVE  LedgerInv' /\ Simulated
<1>1. TypeOK /\ AtStep(q) /\ Separate(q) /\ UNCHANGED <<files, box, txn>>
  <2>1. TypeOK /\ AtStep(q)
    BY DEF LedgerInv, OfferInv, IndInv
  <2> QED
    BY <2>1, StepsSeparate DEF Fault, disk
<1>2. CASE /\ pc[q] \in {"plan", "stage", "journal"}
           /\ pc' = [pc EXCEPT ![q] = "release"]
           /\ UNCHANGED <<goal, cur, mem, plan, undo, idx, todo>>
  <2>1. \A p \in Proposals : ~Minds(q, p)
    BY <1>2, MindsNothing DEF Applying, Moving
  <2> QED
    BY <1>1, <1>2, <2>1, ReleaseLedger
<1>3. CASE /\ \/ pc[q] = "replace"
              \/ /\ pc[q] \in {"index", "unlink", "drop", "write", "row"}
                 /\ goal[q] = "accepted" /\ ~Exists("accepted", cur[q])
           /\ BeginRestore(q, cur[q], "accepted")
           /\ UNCHANGED <<mem, plan, todo>>
  <2>1. Applying(q)
    <3>1. pc[q] = "row" => ~(goal[q] = "accepted" /\ ~Exists("accepted", cur[q]))
      BY DEF LedgerInv, Acts, Applies
    <3> QED
      BY <1>3, <3>1 DEF Applying, Moving
  <2>2. cur[q] \in Proposals /\ ~Committed(cur[q])
    BY <2>1, InHand
  <2>3. \A r \in Proposals : Minds(q, r) => r = cur[q]
    BY <1>3 DEF Minds, Finishing, Recovering
  <2> QED
    BY <1>1, <1>3, <2>2, <2>3, BeginLedger
<1>4. CASE /\ pc[q] \in {"index", "unlink", "drop", "write", "row", "clean"}
           /\ goal[q] = "accepted" /\ Exists("accepted", cur[q])
           /\ pc' = [pc EXCEPT ![q] = "release"]
           /\ UNCHANGED <<goal, cur, mem, plan, undo, idx, todo>>
  <2>1. ~Applying(q)
    BY <1>4, InHand DEF Unsettled
  <2>2. \A p \in Proposals : ~Minds(q, p)
    BY <1>4, <2>1, MindsNothing
  <2> QED
    BY <1>1, <1>4, <2>2, ReleaseLedger
<1>5. CASE /\ pc[q] \in {"unlink", "drop", "write", "row", "undo", "rewrite", "reindex"}
           /\ goal[q] # "accepted"
           /\ Leave(q, "idle")
  <2>1. \A p \in Proposals : ~Minds(q, p)
    BY <1>5, MindsNothing DEF Applying, Moving
  <2> QED
    BY <1>1, <1>5, <2>1, LeaveLedger
<1> QED
  BY <1>2, <1>3, <1>4, <1>5 DEF Fault
-------------------------------------------------------------------------------
(* Requests.                                                                   *)

LEMMA LoadLedger ==
  ASSUME OneReviewer, LedgerInv, Orderly, OfferInv', NEW q \in Procs, NEW op,
         NEW p \in Proposals, NEW rec, NEW to, NEW next,
         Load(q, op, p, rec, to, next), rec.ed \in Editions, Agree(rec.applied),
         next # "undo" => UNCHANGED <<undo, idx>>,
         \/ next = "lock" /\ to = "accepted" /\ Unsettled(p)
         \/ next = "unlink" /\ to = "rejected" /\ Unsettled(p)
         \/ /\ next = "write" /\ to = "saved"
            /\ rec.status \in {"accepted", "rejected"} => box[rec.status][p] = rec
         \/ /\ next = "undo" /\ to = "rolled_back" /\ Exists("accepted", p)
            /\ box["accepted"][p] = rec /\ rec.status = "accepted"
            /\ undo' = [undo EXCEPT ![q] = rec.applied] /\ rec.applied \in Seq(AppliedChange)
            /\ idx' = [idx EXCEPT ![q] = Len(rec.applied)]
  PROVE  LedgerInv' /\ Simulated
<1>0. TypeOK
  BY DEF LedgerInv, OfferInv, IndInv
<1>1. /\ pc[q] = "idle" /\ UNCHANGED <<files, box, txn>>
      /\ pc'[q] = next /\ goal'[q] = to /\ cur'[q] = p /\ mem'[q] = rec
  BY <1>0 DEF Load, TypeOK, disk
<1>2. Separate(q)
  BY <1>0 DEF Load, TypeOK, Separate
<1>3. Reviews(q)'
  BY <1>1 DEF Reviews, Unsettled, Exists, Planned, Moving
<1>4. Undoes(q)'
  <2>1. CASE next # "undo"
    BY <1>1, <2>1 DEF Undoes, Undoing
  <2>2. CASE next = "undo"
    <3>1. undo'[q] = rec.applied /\ idx'[q] = Len(rec.applied)
      BY <1>0, <2>2 DEF TypeOK
    <3>2. \A j \in DOMAIN rec.applied : ~(j > Len(rec.applied))
      BY <2>2
    <3>3. Restored(q, idx[q])'
      BY <3>1, <3>2 DEF Restored
    <3> QED
      BY <1>1, <2>2, <3>1, <3>3 DEF Undoes, Exists
  <2> QED
    BY <2>1, <2>2
<1>5. Acts(q)'
  BY <1>1, <1>3, <1>4 DEF Acts, Applies, Restores, Applying, Moving
<1>6. \A r \in Proposals : ~Minds(q, r)
  BY <1>1, MindsNothing DEF Applying, Moving
<1> QED
  BY <1>1, <1>2, <1>5, <1>6, NoDiskKeeps

LEMMA LoadOpLedger ==
  ASSUME OneReviewer, LedgerInv, Orderly, OfferInv', NEW q \in Procs, LoadOp(q)
  PROVE  LedgerInv' /\ Simulated
<1>0. TypeOK /\ Filed /\ SettledNotOffered
  BY DEF LedgerInv, OfferInv, IndInv
<1>1. ASSUME NEW d \in Dirs, NEW p \in Proposals, Exists(d, p)
      PROVE  /\ box[d][p] \in Proposal /\ box[d][p].ed \in Editions /\ Agree(box[d][p].applied)
  BY <1>0, <1>1 DEF LedgerInv, Records, TypeOK, Exists
<1>2. ASSUME NEW p \in Proposals, Found(p, "pending", Inbox)
      PROVE  /\ Unsettled(p) /\ box["pending"][p].status = "pending"
             /\ box["pending"][p] \in Proposal /\ box["pending"][p].ed \in Editions
             /\ Agree(box["pending"][p].applied)
  BY <1>0, <1>1, <1>2 DEF SettledNotOffered, Unsettled, Found, Inbox, Dirs
<1>3. CASE LoadAccept(q)
  BY <1>2, <1>3, LoadLedger DEF LoadAccept
<1>4. CASE LoadReject(q)
  BY <1>2, <1>4, LoadLedger DEF LoadReject
<1>5. CASE LoadEdit(q)
  <2>1. PICK p \in Proposals :
          /\ Found(p, "pending", Inbox) /\ box["pending"][p].ed < MaxEdits
          /\ Load(q, "edit", p, [box["pending"][p] EXCEPT !.ed = @ + 1], "saved", "write")
          /\ UNCHANGED <<undo, idx>>
    BY <1>5 DEF LoadEdit
  <2> DEFINE rec == [box["pending"][p] EXCEPT !.ed = @ + 1]
  <2>2. /\ rec.ed = box["pending"][p].ed + 1 /\ rec.status = "pending"
        /\ rec.applied = box["pending"][p].applied
    BY <1>2, <2>1 DEF Proposal
  <2>3. rec.ed \in Editions /\ Agree(rec.applied)
    BY <1>2, <2>1, <2>2, MaxEditsAssumption DEF Editions
  <2>4. Load(q, "edit", p, rec, "saved", "write")
    BY <2>1
  <2> HIDE DEF rec
  <2> QED
    BY <2>1, <2>2, <2>3, <2>4, LoadLedger
<1>6. CASE LoadFeedback(q)
  <2>1. PICK p \in Proposals, d \in Dirs :
          /\ Exists(d, p)
          /\ Load(q, "feedback", p, box[d][p], "saved", "write")
          /\ UNCHANGED <<undo, idx>>
    BY <1>6 DEF LoadFeedback
  <2>2. box[d][p].status \in {"accepted", "rejected"} => box[d][p].status = d
    BY <1>0, <2>1 DEF Filed, Dir
  <2> QED
    BY <1>1, <2>1, <2>2, LoadLedger
<1>7. CASE LoadRollback(q)
  <2>1. PICK p \in Proposals :
          /\ Found(p, "accepted", {"accepted"})
          /\ Load(q, "rollback", p, box["accepted"][p], "rolled_back", "undo")
          /\ undo' = [undo EXCEPT ![q] = box["accepted"][p].applied]
          /\ idx' = [idx EXCEPT ![q] = Len(box["accepted"][p].applied)]
    BY <1>7 DEF LoadRollback
  <2>2. /\ Exists("accepted", p) /\ box["accepted"][p].status = "accepted"
        /\ box["accepted"][p] \in Proposal
    BY <1>1, <2>1 DEF Found, Dirs
  <2>3. box["accepted"][p].applied \in Seq(AppliedChange)
    BY <2>2 DEF Proposal
  <2> QED
    BY <1>1, <2>1, <2>2, <2>3, LoadLedger DEF Dirs
<1> QED
  BY <1>3, <1>4, <1>5, <1>6, <1>7 DEF LoadOp
-------------------------------------------------------------------------------
(* Steps of an accept, a move and a rollback that write no file, proposal or   *)
(* journal.                                                                    *)

(* Every planned change found what was there before the first one.             *)
LEMMA PlanFound ==
  ASSUME NEW p, NEW e, NEW found, NEW s, s = PlanOf(p, e, found)
  PROVE  /\ \A i \in DOMAIN s : s[i].before = found[s[i].target]
         /\ Agree(Recorded(s)) /\ Agree(JournalFor(s))
<1>1. \A i \in DOMAIN s : s[i].before = found[s[i].target]
  BY DEF PlanOf
<1>2. Agree(Recorded(s))
  BY <1>1 DEF Agree, Recorded
<1>3. Agree(JournalFor(s))
  BY <1>1 DEF Agree, JournalFor
<1> QED
  BY <1>1, <1>2, <1>3

(* Before the journal and during a rollback the assets are what they seem.     *)
LEMMA NothingOpen ==
  ASSUME LedgerInv, Orderly, NEW q \in Procs,
         pc[q] \in {"plan", "stage", "journal"} \cup Undoing
  PROVE  View = files /\ \A p \in Proposals : ~Open(p)
<1>1. \A p \in Proposals : ~Finishing(q, p)
  BY DEF Finishing, Applying, Restoring, Moving, Undoing
<1>2. \A p \in Proposals : ~Open(p)
  BY <1>1, OpenIsOwn DEF InApply
<1>3. TypeOK /\ Journals
  BY DEF LedgerInv, OfferInv, IndInv
<1>4. \A t \in Targets : View[t] = files[t]
  BY <1>2, <1>3, ViewNow DEF ViewFact
<1>5. files = [t \in Targets |-> files[t]]
  BY <1>3 DEF TypeOK
<1> QED
  BY <1>2, <1>4, <1>5, ViewIsFunction

LEMMA AcquireLockLedger ==
  ASSUME OneReviewer, LedgerInv, Orderly, OfferInv', NEW q \in Procs, AcquireLock(q)
  PROVE  LedgerInv' /\ Simulated
<1>0. TypeOK /\ Separate(q)
  BY StepsSeparate DEF LedgerInv, OfferInv, IndInv, Work, ApplyStep
<1>1. /\ pc[q] = "lock" /\ pc'[q] = "plan" /\ UNCHANGED <<files, box, txn, goal, cur, mem>>
  BY <1>0 DEF AcquireLock, Step, TypeOK, disk
<1>2. Reviews(q)'
  BY <1>1 DEF LedgerInv, Acts, Reviews, Unsettled, Exists, Planned, Moving
<1>3. Acts(q)'
  BY <1>1, <1>2 DEF Acts, Applies, Undoes, Restores, Applying, Moving, Undoing
<1>4. \A p \in Proposals : ~Minds(q, p)
  BY <1>1, MindsNothing DEF Applying, Moving
<1> QED
  BY <1>0, <1>1, <1>3, <1>4, NoDiskKeeps

LEMMA PlanChangesLedger ==
  ASSUME OneReviewer, LedgerInv, Orderly, OfferInv', NEW q \in Procs, PlanChanges(q)
  PROVE  LedgerInv' /\ Simulated
<1>0. TypeOK /\ Separate(q)
  BY StepsSeparate DEF LedgerInv, OfferInv, IndInv, Work, ApplyStep
<1>1. /\ pc[q] = "plan" /\ pc'[q] = "stage" /\ UNCHANGED <<files, box, txn, goal, cur, mem>>
      /\ plan'[q] = PlanOf(cur[q], mem[q].ed, files)
  BY <1>0 DEF PlanChanges, Step, TypeOK, disk
<1>2. Reviews(q)'
  BY <1>1 DEF LedgerInv, Acts, Reviews, Unsettled, Exists, Planned, Moving
<1>3. View' = files
  BY <1>1, NothingOpen, NoDisk
<1>4. Acts(q)'
  BY <1>1, <1>2, <1>3 DEF Acts, Applies, Undoes, Restores, Applying, Moving, Undoing
<1>5. \A p \in Proposals : ~Minds(q, p)
  BY <1>1, MindsNothing DEF Applying, Moving
<1> QED
  BY <1>0, <1>1, <1>4, <1>5, NoDiskKeeps

(* The steps of an accept between its journal and its accepted file.           *)
LEMMA CarryOn ==
  ASSUME OneReviewer, LedgerInv, Orderly, OfferInv', NEW q \in Procs, Separate(q),
         UNCHANGED <<files, box, txn>>,
         Applying(q), pc[q] # "replace", Applying(q)', pc'[q] # "replace",
         UNCHANGED <<goal, cur, plan>>, mem'[q].ed = mem[q].ed,
         mem'[q] = mem[q] \/ Agree(mem'[q].applied),
         pc'[q] \in Moving => mem'[q].applied = Recorded(plan[q]),
         pc'[q] \in {"drop", "write"} => mem'[q].status = goal[q]
  PROVE  LedgerInv' /\ Simulated
<1>1. Reviews(q)'
  BY InHand DEF Reviews, Unsettled, Exists, Applying, Moving, Planned
<1>2. Applies(q)'
  <2>1. View' = View
    BY NoDisk
  <2>2. Applies(q)
    BY DEF LedgerInv, Acts
  <2>3. plan[q] = PlanOf(cur[q], mem[q].ed, View)
    BY <2>2 DEF Applies
  <2>4. /\ txn[cur[q]] # Absent /\ txn[cur[q]].known
        /\ txn[cur[q]].changes = JournalFor(plan[q]) /\ Written(q, Len(plan[q]))
    BY <2>2 DEF Applies
  <2>5. Written(q, Len(plan[q]))'
    BY <2>4 DEF Written
  <2> QED
    BY <2>1, <2>3, <2>4, <2>5 DEF Applies, Applying, Moving, JournalFor
<1>3. Acts(q)'
  BY <1>1, <1>2 DEF Acts, Undoes, Restores, Applying, Moving, Undoing
<1>4. \A p \in Proposals : Minds(q, p) => Minds(q, p)'
  BY DEF Minds, Finishing, Recovering, Applying, Moving
<1>5. mem'[q] = mem[q] \/ (mem'[q].ed \in Editions /\ Agree(mem'[q].applied))
  BY DEF LedgerInv, Records
<1> QED
  BY <1>3, <1>4, <1>5, NoDiskKeeps

LEMMA IndexTargetLedger ==
  ASSUME OneReviewer, LedgerInv, Orderly, OfferInv', NEW q \in Procs, IndexTarget(q)
  PROVE  LedgerInv' /\ Simulated
<1>0. TypeOK /\ Separate(q)
  BY StepsSeparate DEF LedgerInv, OfferInv, IndInv, Work, ApplyStep
<1>1. /\ pc[q] = "index" /\ pc'[q] = "index" /\ mem'[q] = mem[q]
      /\ UNCHANGED <<files, box, txn, goal, cur, plan>>
  BY DEF IndexTarget
<1>2. Applying(q) /\ Applying(q)'
  BY <1>1 DEF Applying
<1> QED
  BY <1>0, <1>1, <1>2, CarryOn DEF Moving

LEMMA RecordAppliedLedger ==
  ASSUME OneReviewer, LedgerInv, Orderly, OfferInv', NEW q \in Procs, RecordApplied(q)
  PROVE  LedgerInv' /\ Simulated
<1>0. TypeOK /\ IndInv /\ Separate(q) /\ AtStep(q) /\ Applies(q)
  BY StepsSeparate DEF LedgerInv, OfferInv, IndInv, Work, ApplyStep, Acts
<1>1. /\ pc[q] = "index" /\ pc'[q] = "unlink" /\ UNCHANGED <<files, box, txn, goal, cur, plan>>
      /\ mem' = [mem EXCEPT ![q].applied = Recorded(plan[q])]
  BY <1>0 DEF RecordApplied, Step, TypeOK, disk
<1>2. mem'[q].applied = Recorded(plan[q]) /\ mem'[q].ed = mem[q].ed
  <2>1. mem[q] \in Proposal
    BY <1>0 DEF TypeOK
  <2>2. mem'[q] = [mem[q] EXCEPT !.applied = Recorded(plan[q])]
    BY <1>0, <1>1 DEF TypeOK
  <2> QED
    BY <2>1, <2>2 DEF Proposal
<1>3. Applying(q) /\ Applying(q)' /\ goal[q] = "accepted"
  BY <1>0, <1>1 DEF Applying, Moving, AtStep
<1>4. Agree(mem'[q].applied)
  BY <1>0, <1>2, <1>3, PlanFound DEF Applies
<1> QED
  BY <1>0, <1>1, <1>2, <1>3, <1>4, CarryOn

LEMMA MoveDropRowLedger ==
  ASSUME OneReviewer, LedgerInv, Orderly, OfferInv', NEW q \in Procs, MoveDropRow(q)
  PROVE  LedgerInv' /\ Simulated
<1>0. TypeOK /\ Separate(q) /\ Reviews(q) /\ Applies(q)
  BY StepsSeparate DEF LedgerInv, OfferInv, IndInv, Work, MoveStep, Acts
<1>1. /\ pc[q] = "drop" /\ pc'[q] = "write"
      /\ UNCHANGED <<files, box, txn, goal, cur, mem, plan>>
  BY <1>0 DEF MoveDropRow, Step, TypeOK
<1>2. goal[q] \in {"accepted", "rejected"} /\ mem[q].status = goal[q]
  BY <1>0, <1>1 DEF Reviews
<1>3. CASE goal[q] = "accepted"
  <2>1. Applying(q) /\ Applying(q)'
    BY <1>1, <1>3 DEF Applying, Moving
  <2>2. mem[q].applied = Recorded(plan[q])
    BY <1>0, <1>1, <1>3 DEF Applies, Moving
  <2> QED
    BY <1>0, <1>1, <1>2, <2>1, <2>2, CarryOn
<1>4. CASE goal[q] = "rejected"
  <2>1. Unsettled(cur[q])
    BY <1>0, <1>1, <1>4 DEF Reviews, Moving
  <2>2. Acts(q)'
    BY <1>1, <1>2, <1>4, <2>1 DEF Acts, Reviews, Applies, Undoes, Restores, Applying, Moving,
                                Undoing, Planned, Unsettled, Exists
  <2>3. \A p \in Proposals : ~Minds(q, p)
    BY <1>1, <1>4, MindsNothing DEF Applying
  <2> QED
    BY <1>0, <1>1, <2>2, <2>3, NoDiskKeeps
<1> QED
  BY <1>2, <1>3, <1>4

LEMMA IndexProposalLedger ==
  ASSUME OneReviewer, LedgerInv, Orderly, OfferInv', NEW q \in Procs, IndexProposal(q)
  PROVE  LedgerInv' /\ Simulated
<1>0. TypeOK /\ AtStep(q) /\ Separate(q) /\ Applies(q)
  BY StepsSeparate DEF LedgerInv, OfferInv, IndInv, Work, MoveStep, Acts
<1>1. pc[q] = "row" /\ UNCHANGED <<files, box, txn>>
  BY DEF IndexProposal
<1>2. \A p \in Proposals : ~Minds(q, p)
  BY <1>1, MindsNothing DEF Applying, Moving
<1>3. CASE goal[q] = "accepted"
  <2>1. pc'[q] = "clean" /\ UNCHANGED <<goal, cur, mem>>
    BY <1>0, <1>3 DEF IndexProposal, TypeOK
  <2>2. Exists("accepted", cur[q]) /\ txn[cur[q]] # Absent /\ txn[cur[q]].known
    BY <1>0, <1>1, <1>3 DEF Applies
  <2>3. Acts(q)'
    BY <1>1, <1>3, <2>1, <2>2 DEF Acts, Reviews, Applies, Undoes, Restores, Applying, Moving,
                                Undoing, Planned, Exists
  <2> QED
    BY <1>0, <1>1, <1>2, <2>1, <2>3, NoDiskKeeps
<1>4. CASE goal[q] # "accepted"
  BY <1>0, <1>1, <1>2, <1>4, LeaveLedger DEF IndexProposal
<1> QED
  BY <1>3, <1>4

LEMMA UndoIndexLedger ==
  ASSUME OneReviewer, LedgerInv, Orderly, OfferInv', NEW q \in Procs, UndoIndex(q)
  PROVE  LedgerInv' /\ Simulated
<1>0. TypeOK /\ Separate(q) /\ Undoes(q)
  BY StepsSeparate DEF LedgerInv, OfferInv, IndInv, Work, UndoStep, Acts
<1>1. /\ pc[q] = "reindex" /\ pc'[q] = "undo" /\ idx'[q] = idx[q] - 1
      /\ UNCHANGED <<files, box, txn, goal, cur, mem, undo>>
  BY <1>0 DEF UndoIndex, Step, TypeOK
<1>2. Undoes(q)'
  <2>1. /\ Exists("accepted", cur[q]) /\ box["accepted"][cur[q]] = mem[q]
        /\ mem[q].status = "accepted" /\ undo[q] = mem[q].applied /\ Restored(q, idx[q] - 1)
    BY <1>0, <1>1 DEF Undoes, Undoing
  <2>2. Restored(q, idx[q])'
    BY <1>1, <2>1 DEF Restored
  <2> QED
    BY <1>1, <2>1, <2>2 DEF Undoes, Exists
<1>3. Acts(q)'
  BY <1>1, <1>2 DEF Acts, Reviews, Applies, Restores, Applying, Moving, Planned
<1>4. \A p \in Proposals : ~Minds(q, p)
  BY <1>1, MindsNothing DEF Applying, Moving
<1> QED
  BY <1>0, <1>1, <1>3, <1>4, NoDiskKeeps
-------------------------------------------------------------------------------
(* Steps that write an asset.                                                  *)

LEMMA AssetKeeps ==
  ASSUME OneReviewer, LedgerInv, Orderly, OfferInv', NEW q \in Procs, Separate(q), OnFiles(q),
         UNCHANGED <<box, txn>>, mem'[q] = mem[q], Acts(q)',
         \A p \in Proposals : Minds(q, p) => Minds(q, p)'
  PROVE  /\ LedgerInv' /\ UNCHANGED <<Standing, OnRecord>>
         /\ \A p \in Proposals : Open(p)' <=> Open(p)
<1>1. UNCHANGED <<Standing, OnRecord>>
  BY DEF Standing, OnRecord, Exists
<1>2. \A p \in Proposals : Open(p)' <=> Open(p)
  BY DEF Open, Committed, Exists
<1>3. Journals'
  BY <1>2 DEF LedgerInv, Journals
<1>4. mem'[q].ed \in Editions /\ Agree(mem'[q].applied)
  BY DEF LedgerInv, Records
<1>5. Records'
  BY <1>4, RecordsKept DEF LedgerInv
<1> QED
  BY <1>1, <1>2, <1>3, <1>5, StepKeeps

(* What goes on inside an open transaction does not show.                      *)
LEMMA Hidden ==
  ASSUME LedgerInv, OfferInv', UNCHANGED <<box, txn>>, NEW p \in Proposals, Open(p),
         NEW t \in Targets, HitBy(p, t), \A u \in Targets \ {t} : files'[u] = files[u]
  PROVE  View' = View
<1>1. \A r \in Proposals : Open(r)' <=> Open(r)
  BY DEF Open, Committed, Exists
<1>2. Journals'
  BY <1>1 DEF LedgerInv, Journals
<1> QED
  BY <1>1, <1>2, SameView DEF LedgerInv, OfferInv, IndInv

LEMMA ReplaceTargetLedger ==
  ASSUME OneReviewer, LedgerInv, Orderly, OfferInv', NEW q \in Procs, ReplaceTarget(q)
  PROVE  LedgerInv' /\ Simulated
<1>0. TypeOK /\ Separate(q) /\ AtStep(q) /\ Applies(q)
  BY StepsSeparate DEF LedgerInv, OfferInv, IndInv, Work, ApplyStep, Acts
<1>1. /\ pc[q] = "replace" /\ pc'[q] = "replace" /\ idx'[q] = idx[q] + 1
      /\ UNCHANGED <<box, txn, goal, cur, mem, plan>> /\ Applying(q) /\ Applying(q)'
  BY <1>0 DEF ReplaceTarget, TypeOK, Applying
<1>2. /\ plan[q] \in Seq(PlannedChange) /\ idx[q] \in DOMAIN plan[q]
      /\ idx[q] \in Nat /\ idx[q] <= Len(plan[q]) /\ Len(plan[q]) \in Nat
      /\ DOMAIN plan[q] \subseteq Nat
  <2>1. plan[q] \in Seq(PlannedChange) /\ idx[q] \in Nat /\ idx[q] >= 1 /\ idx[q] <= Len(plan[q])
    BY <1>0, <1>1 DEF ReplaceTarget, TypeOK, AtStep
  <2> HIDE DEF PlannedChange
  <2> QED
    BY <2>1
<1> DEFINE c == plan[q][idx[q]]
<1>3. /\ c.target \in Targets /\ files' = [files EXCEPT ![c.target] = c.after]
  <2>1. c \in PlannedChange
    <3> HIDE DEF PlannedChange
    <3> QED
      BY <1>2
  <2> QED
    BY <2>1 DEF PlannedChange, ReplaceTarget
<1>4. /\ files'[c.target] = c.after /\ \A u \in Targets \ {c.target} : files'[u] = files[u]
  BY <1>0, <1>3 DEF TypeOK
<1>5. /\ txn[cur[q]] # Absent /\ txn[cur[q]].known
      /\ txn[cur[q]].changes = JournalFor(plan[q])
      /\ Written(q, idx[q] - 1) /\ plan[q] = PlanOf(cur[q], mem[q].ed, View)
  BY <1>0, <1>1 DEF Applies
<1>6. Open(cur[q]) /\ HitBy(cur[q], c.target) /\ cur[q] \in Proposals
  <2>1. DOMAIN JournalFor(plan[q]) = DOMAIN plan[q]
    BY DEF JournalFor
  <2>2. JournalFor(plan[q]) # <<>> /\ JournalFor(plan[q])[idx[q]].target = c.target
    BY <1>2, <2>1 DEF JournalFor
  <2> QED
    BY <1>1, <1>2, <1>5, <2>1, <2>2, InHand DEF Open, HitBy
<1>7. View' = View
  BY <1>1, <1>3, <1>4, <1>6, Hidden
<1>8. ASSUME NEW j \in DOMAIN plan[q], j <= idx[q],
             \A k \in DOMAIN plan[q] : j < k /\ k <= idx[q]
                => plan[q][k].target # plan[q][j].target
      PROVE  files'[plan[q][j].target] = plan[q][j].after
  <2>1. CASE j = idx[q]
    BY <1>4, <2>1
  <2>2. CASE j # idx[q]
    <3>1. j < idx[q] /\ j <= idx[q] - 1
      BY <1>2, <1>8, <2>2
    <3>2. plan[q][j].target # c.target
      BY <1>2, <1>8, <3>1
    <3>3. files[plan[q][j].target] = plan[q][j].after
      BY <1>2, <1>5, <1>8, <3>1 DEF Written
    <3>4. plan[q][j].target \in Targets
      <4>1. plan[q][j] \in PlannedChange
        <5> HIDE DEF PlannedChange
        <5> QED
          BY <1>2
      <4> QED
        BY <4>1 DEF PlannedChange
    <3> QED
      BY <1>4, <3>2, <3>3, <3>4
  <2> QED
    BY <2>1, <2>2
<1>9. Written(q, idx[q] - 1)'
  BY <1>1, <1>2, <1>8 DEF Written
<1>10. Applies(q)'
  BY <1>1, <1>2, <1>5, <1>7, <1>9 DEF Applies, JournalFor, Applying, Moving
<1>11. Reviews(q)'
  BY <1>1, InHand DEF Reviews, Unsettled, Exists, Planned, Moving
<1>12. Acts(q)'
  BY <1>1, <1>10, <1>11 DEF Acts, Undoes, Restores, Undoing
<1>13. \A p \in Proposals : Minds(q, p) => Minds(q, p)'
  BY <1>1 DEF Minds, Finishing, Recovering
<1>14. LedgerInv' /\ UNCHANGED <<Standing, OnRecord>>
  BY <1>0, <1>1, <1>12, <1>13, InHand, AssetKeeps
<1> QED
  BY <1>7, <1>14 DEF Simulated

(* Putting back one file after the other.                                      *)
LEMMA OneMoreRestored ==
  ASSUME NEW q \in Procs, DOMAIN undo[q] \subseteq Nat, idx[q] \in DOMAIN undo[q],
         OthersRestored(q), Agree(undo[q]),
         \A i \in DOMAIN undo[q] : undo[q][i].target \in Targets,
         files'[undo[q][idx[q]].target] = undo[q][idx[q]].before,
         \A u \in Targets \ {undo[q][idx[q]].target} : files'[u] = files[u]
  PROVE  \A j \in DOMAIN undo[q] :
            j > idx[q] - 1 => files'[undo[q][j].target] = undo[q][j].before
<1> SUFFICES ASSUME NEW j \in DOMAIN undo[q], j > idx[q] - 1
             PROVE  files'[undo[q][j].target] = undo[q][j].before
  OBVIOUS
<1>1. CASE undo[q][j].target = undo[q][idx[q]].target
  <2>1. undo[q][j].before = undo[q][idx[q]].before
    BY <1>1 DEF Agree
  <2> QED
    BY <1>1, <2>1
<1>2. CASE undo[q][j].target # undo[q][idx[q]].target
  <2>1. j > idx[q]
    BY <1>2
  <2>2. files[undo[q][j].target] = undo[q][j].before
    BY <1>2, <2>1 DEF OthersRestored
  <2> QED
    BY <1>2, <2>2
<1> QED
  BY <1>1, <1>2

(* A file is written during a rollback, at last with what was there.           *)
LEMMA RewritesLedger ==
  ASSUME OneReviewer, LedgerInv, Orderly, OfferInv', NEW q \in Procs,
         Truncate(q) \/ UndoTarget(q)
  PROVE  LedgerInv' /\ Simulated
<1>0. TypeOK /\ Separate(q) /\ AtStep(q) /\ Undoes(q)
  BY StepsSeparate DEF LedgerInv, OfferInv, IndInv, Work, UndoStep, Acts
<1> DEFINE c == undo[q][idx[q]]
<1>1. /\ idx[q] > 0 /\ pc[q] \in {"undo", "rewrite"} /\ pc'[q] \in {"rewrite", "reindex"}
      /\ UNCHANGED <<box, txn, goal, cur, mem, undo, idx>>
      /\ \/ pc'[q] = "reindex" /\ files' = [files EXCEPT ![c.target] = c.before]
         \/ /\ pc'[q] = "rewrite" /\ c.before # Absent
            /\ files' = [files EXCEPT ![c.target] = <<>>]
  BY <1>0 DEF Truncate, UndoTarget, Step, TypeOK
<1>2. /\ Exists("accepted", cur[q]) /\ box["accepted"][cur[q]] = mem[q]
      /\ mem[q].status = "accepted" /\ undo[q] = mem[q].applied /\ OthersRestored(q)
      /\ cur[q] \in Proposals
  BY <1>0, <1>1 DEF Undoes, Undoing, AtStep, Restored, OthersRestored
<1>3. undo[q] \in Seq(AppliedChange) /\ idx[q] \in 1..Len(undo[q]) /\ Agree(undo[q])
  BY <1>0, <1>1, <1>2 DEF TypeOK, AtStep, LedgerInv, Records
<1>4. \A i \in DOMAIN undo[q] : undo[q][i].target \in Targets
  <2>1. \A i \in DOMAIN undo[q] : undo[q][i] \in AppliedChange
    <3> HIDE DEF AppliedChange
    <3> QED
      BY <1>3
  <2> QED
    BY <2>1 DEF AppliedChange
<1>5. /\ idx[q] \in DOMAIN undo[q] /\ DOMAIN undo[q] \subseteq Nat /\ c.target \in Targets
      /\ DOMAIN files' = Targets
  <2>1. idx[q] \in DOMAIN undo[q] /\ DOMAIN undo[q] \subseteq Nat
    <3> HIDE DEF AppliedChange
    <3> QED
      BY <1>3
  <2> QED
    BY <1>0, <1>1, <1>4, <2>1 DEF TypeOK
<1>6. \A u \in Targets \ {c.target} : files'[u] = files[u]
  BY <1>0, <1>1, <1>5 DEF TypeOK
<1>7. ASSUME pc'[q] = "reindex" PROVE Undoes(q)'
  <2>1. files'[c.target] = c.before
    BY <1>0, <1>1, <1>5, <1>7 DEF TypeOK
  <2>2. \A j \in DOMAIN undo[q] :
          j > idx[q] - 1 => files'[undo[q][j].target] = undo[q][j].before
    BY <1>2, <1>3, <1>4, <1>5, <1>6, <2>1, OneMoreRestored
  <2> QED
    BY <1>1, <1>2, <1>7, <2>2 DEF Undoes, Restored, Exists
<1>8. ASSUME pc'[q] = "rewrite" PROVE Undoes(q)'
  <2>1. OthersRestored(q)'
    BY <1>1, <1>2, <1>4, <1>6 DEF OthersRestored
  <2> QED
    BY <1>1, <1>2, <1>8, <2>1 DEF Undoes, Exists
<1>15. Undoes(q)'
  BY <1>1, <1>7, <1>8
<1>9. Acts(q)'
  BY <1>1, <1>15 DEF Acts, Reviews, Applies, Restores, Applying, Moving, Planned
<1>10. OnFiles(q) /\ \A p \in Proposals : ~Minds(q, p)
  BY <1>1, MindsNothing DEF Applying, Moving, OnFiles, Undoing
<1>11. LedgerInv' /\ UNCHANGED <<Standing, OnRecord>>
  BY <1>0, <1>1, <1>9, <1>10, AssetKeeps
<1>12. View = files /\ View' = files'
  <2>1. View = files /\ \A p \in Proposals : ~Open(p)
    BY <1>1, NothingOpen DEF Undoing
  <2>2. \A p \in Proposals : ~Open(p)'
    BY <1>1, <2>1 DEF Open, Committed, Exists
  <2>3. \A t \in Targets : View'[t] = files'[t]
    BY <1>11, <2>2, ViewThen DEF ViewFact, LedgerInv, OfferInv, IndInv
  <2>4. files' = [t \in Targets |-> files'[t]]
    BY <1>0, <1>1, <1>5 DEF TypeOK
  <2> QED
    BY <2>1, <2>3, <2>4, ViewIsFunctionThen
<1>13. Standing[cur[q]] = "accepted" /\ OnRecord[cur[q]] = undo[q]
  BY <1>2 DEF Standing, OnRecord
<1>14. Ledger!Restore(cur[q])
  BY <1>1, <1>5, <1>11, <1>12, <1>13 DEF Ledger!Restore, OnRecord
<1> QED
  BY <1>2, <1>11, <1>14 DEF Simulated, Ledger!Next

LEMMA RestoreTargetLedger ==
  ASSUME OneReviewer, LedgerInv, Orderly, OfferInv', NEW q \in Procs, RestoreTarget(q)
  PROVE  LedgerInv' /\ Simulated
<1>0. TypeOK /\ Separate(q) /\ AtStep(q) /\ Restores(q)
  BY StepsSeparate DEF LedgerInv, OfferInv, IndInv, Work, RecoverStep, Acts
<1>1. /\ pc[q] = "restore" /\ pc'[q] = "restore" /\ idx'[q] = idx[q] - 1
      /\ UNCHANGED <<box, txn, goal, cur, mem, undo, todo>>
  BY <1>0 DEF RestoreTarget, TypeOK
<1>2. /\ cur[q] \in Proposals /\ goal[q] \in {"accepted", "recovered"}
      /\ ~Committed(cur[q]) /\ undo[q] = JournalOf(cur[q]) /\ Restored(q, idx[q])
  BY <1>0, <1>1 DEF Restores, AtStep
<1>3. /\ undo[q] \in Seq(JournalChange) /\ idx[q] \in DOMAIN undo[q]
      /\ DOMAIN undo[q] \subseteq Nat
  <2>1. undo[q] \in Seq(JournalChange) /\ idx[q] \in 1..Len(undo[q])
    BY <1>0, <1>1 DEF RestoreTarget, TypeOK, AtStep
  <2> HIDE DEF JournalChange
  <2> QED
    BY <2>1
<1> DEFINE c == undo[q][idx[q]]
<1>4. txn[cur[q]] # Absent /\ undo[q] = txn[cur[q]].changes /\ undo[q] # <<>>
  BY <1>2, <1>3 DEF JournalOf
<1>5. /\ Agree(undo[q]) /\ (c.had <=> c.before # Absent)
      /\ Open(cur[q]) /\ HitBy(cur[q], c.target)
  BY <1>2, <1>3, <1>4 DEF LedgerInv, Journals, Open, HitBy
<1>6. \A i \in DOMAIN undo[q] : undo[q][i].target \in Targets
  <2>1. \A i \in DOMAIN undo[q] : undo[q][i] \in JournalChange
    <3> HIDE DEF JournalChange
    <3> QED
      BY <1>3
  <2> QED
    BY <2>1 DEF JournalChange
<1>7. c.target \in Targets /\ files' = [files EXCEPT ![c.target] = c.before]
  BY <1>2, <1>3, <1>5, <1>6 DEF RestoreTarget
<1>8. files'[c.target] = c.before /\ \A u \in Targets \ {c.target} : files'[u] = files[u]
  BY <1>0, <1>7 DEF TypeOK
<1>9. \A j \in DOMAIN undo[q] : j > idx[q] - 1 => files'[undo[q][j].target] = undo[q][j].before
  <2>1. OthersRestored(q)
    BY <1>2 DEF Restored, OthersRestored
  <2> QED
    BY <1>3, <1>5, <1>6, <1>7, <1>8, <2>1, OneMoreRestored
<1>10. View' = View
  BY <1>1, <1>2, <1>5, <1>7, <1>8, Hidden
<1>11. Restores(q)'
  BY <1>1, <1>2, <1>9 DEF Restores, Restored, Committed, Exists, JournalOf
<1>12. Acts(q)'
  BY <1>1, <1>11 DEF Acts, Reviews, Applies, Undoes, Applying, Moving, Planned, Undoing
<1>13. OnFiles(q) /\ \A p \in Proposals : Minds(q, p) => Minds(q, p)'
  BY <1>1, <1>2 DEF OnFiles, InApply, Minds, Finishing, Restoring, Recovering, Applying, Moving
<1>14. LedgerInv' /\ UNCHANGED <<Standing, OnRecord>>
  BY <1>0, <1>1, <1>12, <1>13, AssetKeeps
<1> QED
  BY <1>10, <1>14 DEF Simulated
-------------------------------------------------------------------------------
(* Steps that write a transaction directory.                                   *)

(* The directory of one proposal is written or removed.                        *)
OneJournal(p) == UNCHANGED box /\ \A r \in Proposals \ {p} : txn'[r] = txn[r]

LEMMA OthersOpen ==
  ASSUME NEW p, OneJournal(p)
  PROVE  \A r \in Proposals \ {p} : Open(r)' <=> Open(r)
  BY DEF OneJournal, Open, Committed, Exists

LEMMA JournalsThen ==
  ASSUME Journals, NEW p \in Proposals, OneJournal(p),
         txn'[p] # Absent =>
            /\ Agree(txn'[p].changes)
            /\ \A i \in DOMAIN txn'[p].changes :
                 txn'[p].changes[i].had <=> txn'[p].changes[i].before # Absent,
         Open(p)' => \A r \in Proposals : Open(r) => r = p
  PROVE  Journals'
<1>1. ASSUME NEW r \in Proposals, txn'[r] # Absent
      PROVE  /\ Agree(txn'[r].changes)
             /\ \A i \in DOMAIN txn'[r].changes :
                  txn'[r].changes[i].had <=> txn'[r].changes[i].before # Absent
  BY <1>1 DEF Journals, OneJournal
<1>2. \A r, s \in Proposals : Open(r)' /\ Open(s)' => r = s
  BY OthersOpen DEF Journals
<1> QED
  BY <1>1, <1>2 DEF Journals

LEMMA JournalKeeps ==
  ASSUME OneReviewer, LedgerInv, Orderly, OfferInv', NEW q \in Procs, Separate(q), OnFiles(q),
         NEW p \in Proposals, OneJournal(p), Journals', Acts(q)',
         mem'[q] = mem[q] \/ mem'[q] = NoRec,
         Open(p)' => Minds(q, p)',
         \A r \in Proposals : r # p /\ Open(r) /\ Minds(q, r) => Minds(q, r)'
  PROVE  LedgerInv' /\ UNCHANGED <<Standing, OnRecord>>
<1>1. UNCHANGED <<Standing, OnRecord>>
  BY DEF OneJournal, Standing, OnRecord, Exists
<1>2. Records'
  <2>1. mem'[q].ed \in Editions /\ Agree(mem'[q].applied)
    BY NoRecFits DEF LedgerInv, Records
  <2> QED
    BY <2>1, RecordsKept DEF LedgerInv, OneJournal
<1>3. \A r \in Proposals : Open(r)' => Minds(q, r)' \/ (Open(r) /\ ~Minds(q, r))
  BY OthersOpen
<1>4. UNCHANGED box
  BY DEF OneJournal
<1> QED
  BY <1>1, <1>2, <1>3, <1>4, StepKeeps

(* A directory that nothing is to be put back from shows nothing.              *)
LEMMA ClosedShows ==
  ASSUME LedgerInv, OfferInv', UNCHANGED files, NEW p \in Proposals, OneJournal(p),
         Journals', ~Open(p), ~Open(p)'
  PROVE  View' = View
<1>1. \A r \in Proposals : Open(r)' <=> Open(r)
  BY OthersOpen
<1>2. \A r \in Proposals : Open(r) => txn'[r].changes = txn[r].changes
  BY DEF OneJournal
<1> QED
  BY <1>1, <1>2, SameView DEF LedgerInv, OfferInv, IndInv

LEMMA StageChangesLedger ==
  ASSUME OneReviewer, LedgerInv, Orderly, OfferInv', NEW q \in Procs, StageChanges(q)
  PROVE  LedgerInv' /\ Simulated
<1>0. TypeOK /\ Separate(q) /\ AtStep(q) /\ Reviews(q) /\ Applies(q)
  BY StepsSeparate DEF LedgerInv, OfferInv, IndInv, Work, ApplyStep, Acts
<1>1. /\ pc[q] = "stage" /\ pc'[q] = "journal" /\ cur[q] \in Proposals
      /\ UNCHANGED <<files, box, goal, cur, mem, plan>>
  BY <1>0 DEF StageChanges, Step, TypeOK, AtStep
<1>2. OneJournal(cur[q]) /\ txn'[cur[q]] = Bare
  BY <1>0, <1>1 DEF StageChanges, TypeOK, OneJournal
<1>3. ~Open(cur[q]) /\ ~Open(cur[q])'
  BY <1>1, <1>2, NothingOpen DEF Open, Bare
<1>4. Journals'
  BY <1>1, <1>2, <1>3, JournalsThen DEF LedgerInv, Agree, Bare
<1>5. View' = View
  BY <1>1, <1>2, <1>3, <1>4, ClosedShows
<1>6. Acts(q)'
  BY <1>0, <1>1, <1>5 DEF Acts, Reviews, Unsettled, Exists, Applies, Undoes, Restores, Planned, Moving,
                        Applying, Undoing
<1>7. OnFiles(q) /\ \A r \in Proposals : ~Minds(q, r)
  BY <1>1, MindsNothing DEF Applying, Moving, OnFiles, InApply
<1>8. LedgerInv' /\ UNCHANGED <<Standing, OnRecord>>
  BY <1>0, <1>1, <1>2, <1>3, <1>4, <1>6, <1>7, JournalKeeps
<1> QED
  BY <1>5, <1>8 DEF Simulated

LEMMA WriteJournalLedger ==
  ASSUME OneReviewer, LedgerInv, Orderly, OfferInv', NEW q \in Procs, WriteJournal(q)
  PROVE  LedgerInv' /\ Simulated
<1>0. TypeOK /\ Separate(q) /\ AtStep(q) /\ Reviews(q) /\ Applies(q)
  BY StepsSeparate DEF LedgerInv, OfferInv, IndInv, Work, ApplyStep, Acts
<1>1. /\ pc[q] = "journal" /\ pc'[q] = "replace" /\ idx'[q] = 1 /\ cur[q] \in Proposals
      /\ UNCHANGED <<files, box, goal, cur, mem, plan>> /\ goal[q] = "accepted"
  BY <1>0 DEF WriteJournal, Step, TypeOK, AtStep
<1>2. plan[q] = PlanOf(cur[q], mem[q].ed, View) /\ View = files /\ \A p \in Proposals : ~Open(p)
  BY <1>0, <1>1, NothingOpen DEF Applies
<1>3. /\ \A i \in DOMAIN plan[q] : plan[q][i].before = files[plan[q][i].target]
      /\ Agree(JournalFor(plan[q]))
  BY <1>2, PlanFound
<1>4. /\ OneJournal(cur[q]) /\ txn'[cur[q]] # Absent /\ txn'[cur[q]].known
      /\ txn'[cur[q]].changes = JournalFor(plan[q])
  <2> DEFINE Entry(i) == [target |-> plan[q][i].target,
                          had    |-> plan[q][i].before # Absent,
                          before |-> IF plan[q][i].before = Absent THEN Absent
                                     ELSE files[plan[q][i].target]]
             s == [i \in DOMAIN plan[q] |-> Entry(i)]
             j == [phase |-> "prepared", known |-> TRUE, staged |-> txn[cur[q]] # Absent,
                   changes |-> s]
  <2>1. txn' = [txn EXCEPT ![cur[q]] = j]
    BY DEF WriteJournal
  <2>2. \A i \in DOMAIN plan[q] :
          Entry(i) = [target |-> plan[q][i].target, had |-> plan[q][i].before # Absent,
                      before |-> plan[q][i].before]
    BY <1>3
  <2>3. s = JournalFor(plan[q])
    <3> HIDE DEF Entry
    <3> QED
      BY <2>2 DEF JournalFor
  <2>4. j \in Transaction
    BY <1>0, JournalType DEF TypeOK
  <2> HIDE DEF s
  <2>5. j.changes = s /\ j.known
    OBVIOUS
  <2> HIDE DEF j
  <2>6. j # Absent
    BY <2>4, AbsentAssumption
  <2>7. txn'[cur[q]] = j
    BY <1>0, <1>1, <2>1 DEF TypeOK
  <2>8. OneJournal(cur[q])
    BY <1>0, <1>1, <2>1 DEF TypeOK, OneJournal
  <2> QED
    BY <2>3, <2>5, <2>6, <2>7, <2>8
<1>5. Unsettled(cur[q])
  BY <1>0, <1>1 DEF Reviews, Planned
<1>6. Journals'
  <2>1. \A i \in DOMAIN JournalFor(plan[q]) :
          JournalFor(plan[q])[i].had <=> JournalFor(plan[q])[i].before # Absent
    BY DEF JournalFor
  <2> QED
    BY <1>1, <1>2, <1>3, <1>4, <2>1, JournalsThen DEF LedgerInv
<1>7. View' = View
  <2>1. ASSUME NEW t \in Targets PROVE View'[t] = files[t]
    <3>1. CASE \E i \in DOMAIN plan[q] : plan[q][i].target = t
      <4>1. PICK i \in DOMAIN plan[q] : plan[q][i].target = t
        BY <3>1
      <4>2. i \in DOMAIN JournalFor(plan[q]) /\ JournalFor(plan[q])[i].target = t
            /\ JournalFor(plan[q])[i].before = files[t]
        BY <1>3, <4>1 DEF JournalFor
      <4>3. Open(cur[q])'
        BY <1>1, <1>4, <1>5, <4>2 DEF Open, Committed, Exists, Unsettled
      <4>4. \A k \in DOMAIN txn'[cur[q]].changes :
              View'[txn'[cur[q]].changes[k].target] = txn'[cur[q]].changes[k].before
        BY <1>1, <1>6, <4>3, ViewThen DEF ViewFact, LedgerInv, OfferInv, IndInv
      <4> QED
        BY <1>4, <4>2, <4>4
    <3>2. CASE ~\E i \in DOMAIN plan[q] : plan[q][i].target = t
      <4>1. ~HitBy(cur[q], t)'
        BY <1>1, <1>4, <3>2 DEF HitBy, JournalFor
      <4>2. \A p \in Proposals : Open(p)' => p = cur[q]
        BY <1>2, <1>4, OthersOpen
      <4>3. \A p \in Proposals : Open(p)' => ~HitBy(p, t)'
        BY <1>1, <4>1, <4>2
      <4>4. View'[t] = files'[t]
        BY <1>6, <4>3, ViewThen DEF ViewFact, LedgerInv, OfferInv, IndInv
      <4> QED
        BY <1>1, <4>4
    <3> QED
      BY <3>1, <3>2
  <2>2. files = [t \in Targets |-> files[t]]
    BY <1>0 DEF TypeOK
  <2> QED
    BY <1>2, <2>1, <2>2, ViewIsFunctionThen
<1>8. Applies(q)'
  <2>1. Written(q, idx[q] - 1)'
    <3>1. \A j \in DOMAIN plan[q] : ~(j <= 1 - 1)
      <4>1. plan[q] \in Seq(PlannedChange)
        BY <1>0 DEF TypeOK
      <4> HIDE DEF PlannedChange
      <4> QED
        BY <4>1
    <3> QED
      BY <1>1, <3>1 DEF Written
  <2>2. Len(plan[q]) \in Nat
    BY <1>0 DEF TypeOK
  <2> QED
    BY <1>1, <1>2, <1>4, <1>7, <2>1, <2>2 DEF Applies, JournalFor, Applying, Moving
<1>9. Acts(q)'
  BY <1>0, <1>1, <1>5, <1>8 DEF Acts, Reviews, Unsettled, Exists, Undoes, Restores, Planned, Moving,
                                Undoing
<1>10. OnFiles(q) /\ Minds(q, cur[q])' /\ \A r \in Proposals : ~Minds(q, r)
  BY <1>1, MindsNothing DEF Applying, Moving, OnFiles, InApply, Minds, Finishing
<1>11. LedgerInv' /\ UNCHANGED <<Standing, OnRecord>>
  BY <1>0, <1>1, <1>4, <1>6, <1>9, <1>10, JournalKeeps
<1> QED
  BY <1>7, <1>11 DEF Simulated

LEMMA CommitFilesLedger ==
  ASSUME OneReviewer, LedgerInv, Orderly, OfferInv', NEW q \in Procs, CommitFiles(q)
  PROVE  LedgerInv' /\ Simulated
<1>0. TypeOK /\ Separate(q) /\ AtStep(q) /\ Applies(q)
  BY StepsSeparate DEF LedgerInv, OfferInv, IndInv, Work, ApplyStep, Acts
<1>1. /\ pc[q] = "replace" /\ pc'[q] = "index" /\ Applying(q) /\ Applying(q)'
      /\ UNCHANGED <<files, box, goal, cur, mem, plan>>
  BY <1>0 DEF CommitFiles, Step, TypeOK, Applying
<1>2. /\ cur[q] \in Proposals /\ Unsettled(cur[q]) /\ OnFiles(q)
  BY <1>1, InHand
<1>3. /\ txn[cur[q]] # Absent /\ txn[cur[q]].known
      /\ txn[cur[q]].changes = JournalFor(plan[q])
      /\ Written(q, idx[q] - 1) /\ plan[q] = PlanOf(cur[q], mem[q].ed, View)
      /\ idx[q] <= Len(plan[q]) + 1
  BY <1>0, <1>1 DEF Applies
<1>4. Written(q, Len(plan[q]))
  <2>1. idx[q] \in Nat /\ Len(plan[q]) \in Nat /\ idx[q] > Len(plan[q])
    BY <1>0 DEF TypeOK, CommitFiles
  <2>2. idx[q] - 1 = Len(plan[q])
    BY <1>3, <2>1
  <2> QED
    BY <1>3, <2>2
<1>5. /\ OneJournal(cur[q]) /\ txn'[cur[q]] # Absent
      /\ txn'[cur[q]].known = txn[cur[q]].known /\ txn'[cur[q]].changes = txn[cur[q]].changes
  <2> DEFINE j == [txn[cur[q]] EXCEPT !.phase = "files_committed", !.staged = FALSE]
  <2>1. txn' = [txn EXCEPT ![cur[q]] = j]
    BY <1>0, <1>2, <1>3 DEF CommitFiles, TypeOK
  <2>2. txn[cur[q]] \in Transaction
    BY <1>0, <1>2, <1>3 DEF TypeOK
  <2>3. j \in Transaction /\ j.known = txn[cur[q]].known /\ j.changes = txn[cur[q]].changes
    <3>1. j \in Transaction
      BY <2>2, BareType
    <3>2. j.known = txn[cur[q]].known /\ j.changes = txn[cur[q]].changes
      BY <2>2 DEF Transaction
    <3> QED
      BY <3>1, <3>2
  <2> HIDE DEF j
  <2>4. txn'[cur[q]] = j /\ OneJournal(cur[q])
    BY <1>0, <1>1, <1>2, <2>1 DEF TypeOK, OneJournal
  <2> QED
    BY <2>3, <2>4, AbsentAssumption
<1>6. \A r \in Proposals : Open(r)' <=> Open(r)
  <2>1. ASSUME NEW r \in Proposals, r = cur[q] PROVE Open(r)' <=> Open(r)
    BY <1>1, <1>3, <1>5, <2>1 DEF Open, Committed, Exists
  <2> QED
    BY <1>5, <2>1, OthersOpen
<1>7. Journals'
  BY <1>2, <1>3, <1>5, <1>6, JournalsThen DEF LedgerInv, Journals
<1>8. View' = View
  <2>1. \A r \in Proposals : Open(r) => txn'[r].changes = txn[r].changes
    BY <1>5 DEF OneJournal
  <2> QED
    BY <1>1, <1>6, <1>7, <2>1, SameView DEF LedgerInv, OfferInv, IndInv
<1>9. Applies(q)'
  BY <1>1, <1>3, <1>4, <1>5, <1>8 DEF Applies, Written, JournalFor, Applying, Moving
<1>10. Acts(q)'
  BY <1>1, <1>2, <1>9 DEF Acts, Reviews, Unsettled, Exists, Undoes, Restores, Planned, Moving, Undoing
<1>11. \A r \in Proposals : Minds(q, r) => Minds(q, r)'
  BY <1>1 DEF Minds, Finishing, Recovering
<1>12. Minds(q, cur[q])'
  BY <1>1 DEF Minds, Finishing
<1>13. LedgerInv' /\ UNCHANGED <<Standing, OnRecord>>
  BY <1>0, <1>1, <1>2, <1>5, <1>7, <1>10, <1>11, <1>12, JournalKeeps
<1> QED
  BY <1>8, <1>13 DEF Simulated

(* A directory whose proposal has its accepted file is removed.                *)
LEMMA RemoveLedger ==
  ASSUME OneReviewer, LedgerInv, Orderly, OfferInv', NEW q \in Procs, Separate(q), OnFiles(q),
         UNCHANGED files, NEW p \in Proposals, OneJournal(p), Committed(p), txn'[p] = Absent,
         mem'[q] = mem[q] \/ mem'[q] = NoRec, pc'[q] \in Out,
         \A r \in Proposals : r # p /\ Minds(q, r) => Minds(q, r)'
  PROVE  LedgerInv' /\ Simulated
<1>1. ~Open(p) /\ ~Open(p)'
  BY DEF Open
<1>2. Journals'
  BY <1>1, JournalsThen DEF LedgerInv
<1>3. View' = View
  BY <1>1, <1>2, ClosedShows
<1>4. Acts(q)'
  BY OutActs
<1>5. LedgerInv' /\ UNCHANGED <<Standing, OnRecord>>
  BY <1>1, <1>2, <1>4, JournalKeeps
<1> QED
  BY <1>3, <1>5 DEF Simulated

LEMMA CleanUpLedger ==
  ASSUME OneReviewer, LedgerInv, Orderly, OfferInv', NEW q \in Procs, CleanUp(q)
  PROVE  LedgerInv' /\ Simulated
<1>0. TypeOK /\ Separate(q) /\ AtStep(q) /\ Applies(q)
  BY StepsSeparate DEF LedgerInv, OfferInv, IndInv, Work, ApplyStep, Acts
<1>1. /\ pc[q] = "clean" /\ pc'[q] \in Out /\ UNCHANGED files /\ mem'[q] = NoRec
      /\ cur[q] \in Proposals /\ OnFiles(q)
      /\ OneJournal(cur[q]) /\ txn'[cur[q]] = Absent
  BY <1>0 DEF CleanUp, Leave, TypeOK, AtStep, OnFiles, InApply, OneJournal, Out
<1>2. Committed(cur[q])
  BY <1>0, <1>1 DEF Applies, AtStep, Committed
<1>3. \A r \in Proposals : ~Minds(q, r)
  BY <1>1, MindsNothing DEF Applying, Moving
<1> QED
  BY <1>0, <1>1, <1>2, <1>3, RemoveLedger

LEMMA DiscardCommittedLedger ==
  ASSUME OneReviewer, LedgerInv, Orderly, OfferInv', NEW q \in Procs, DiscardCommitted(q)
  PROVE  LedgerInv' /\ Simulated
<1>0. TypeOK /\ Separate(q)
  BY StepsSeparate DEF LedgerInv, OfferInv, IndInv, Work, RecoverStep
<1>1. PICK p \in todo[q] : /\ pc[q] = "recover" /\ Committed(p)
                           /\ txn' = [txn EXCEPT ![p] = Absent]
                           /\ todo' = [todo EXCEPT ![q] = @ \ {p}]
                           /\ UNCHANGED <<files, box, pc, goal, cur, mem>>
  BY DEF DiscardCommitted
<1>2. /\ p \in Proposals /\ todo'[q] = todo[q] \ {p} /\ OneJournal(p) /\ txn'[p] = Absent
      /\ pc'[q] \in Out /\ OnFiles(q) /\ mem'[q] = mem[q]
  BY <1>0, <1>1 DEF TypeOK, OneJournal, Out, OnFiles, Recovering
<1>3. \A r \in Proposals : r # p /\ Minds(q, r) => Minds(q, r)'
  BY <1>1, <1>2 DEF Minds, Finishing, Restoring, Applying, Moving, Recovering
<1> QED
  BY <1>0, <1>1, <1>2, <1>3, RemoveLedger

LEMMA RestoreDoneLedger ==
  ASSUME OneReviewer, LedgerInv, Orderly, OfferInv', NEW q \in Procs, RestoreDone(q)
  PROVE  LedgerInv' /\ Simulated
<1>0. TypeOK /\ Separate(q) /\ AtStep(q) /\ Restores(q)
  BY StepsSeparate DEF LedgerInv, OfferInv, IndInv, Work, RecoverStep, Acts
<1>1. /\ pc[q] = "restore" /\ pc'[q] = (IF goal[q] = "recovered" THEN "recover" ELSE "release")
      /\ idx[q] = 0 /\ cur[q] \in Proposals /\ goal[q] \in {"accepted", "recovered"}
      /\ UNCHANGED <<files, box, goal, cur, mem, todo>>
      /\ OneJournal(cur[q]) /\ txn'[cur[q]] = Absent
  BY <1>0 DEF RestoreDone, Step, TypeOK, AtStep, OneJournal
<1>2. OnFiles(q) /\ pc'[q] \in Out
  BY <1>1 DEF OnFiles, InApply, Recovering, Out
<1>3. /\ undo[q] = JournalOf(cur[q]) /\ undo[q] \in Seq(JournalChange)
      /\ \A j \in DOMAIN undo[q] : files[undo[q][j].target] = undo[q][j].before
  <2>1. undo[q] = JournalOf(cur[q]) /\ undo[q] \in Seq(JournalChange) /\ Restored(q, 0)
    BY <1>0, <1>1 DEF Restores, AtStep
  <2>2. \A j \in DOMAIN undo[q] : j > 0
    <3> HIDE DEF JournalChange
    <3> QED
      BY <2>1
  <2> QED
    BY <2>1, <2>2 DEF Restored
<1>4. ~Open(cur[q])'
  BY <1>1 DEF Open
<1>5. Journals'
  BY <1>1, <1>4, JournalsThen DEF LedgerInv
<1>6. View' = View
  <2>1. CASE ~Open(cur[q])
    BY <1>1, <1>4, <1>5, <2>1, ClosedShows
  <2>2. CASE Open(cur[q])
    <3>1. \A r \in Proposals : Open(r) <=> r = cur[q]
      BY <1>1, <2>2 DEF LedgerInv, Journals
    <3>2. \A r \in Proposals : ~Open(r)'
      BY <1>1, <1>4, <3>1, OthersOpen
    <3>3. \A t \in Targets : View'[t] = files[t]
      BY <1>1, <1>5, <3>2, ViewThen DEF ViewFact, LedgerInv, OfferInv, IndInv
    <3>4. undo[q] = txn[cur[q]].changes
      BY <1>3, <2>2 DEF JournalOf, Open
    <3>5. ASSUME NEW t \in Targets PROVE View[t] = files[t]
      <4>1. CASE HitBy(cur[q], t)
        <5>1. PICK i \in DOMAIN txn[cur[q]].changes : txn[cur[q]].changes[i].target = t
          BY <4>1 DEF HitBy
        <5>2. View[t] = txn[cur[q]].changes[i].before
          BY <1>1, <2>2, <5>1, ViewNow DEF ViewFact, LedgerInv, OfferInv, IndInv
        <5> QED
          BY <1>3, <3>4, <5>1, <5>2
      <4>2. CASE ~HitBy(cur[q], t)
        BY <3>1, <4>2, ViewNow DEF ViewFact, LedgerInv, OfferInv, IndInv
      <4> QED
        BY <4>1, <4>2
    <3> QED
      BY <3>3, <3>5, ViewIsFunction, ViewIsFunctionThen
  <2> QED
    BY <2>1, <2>2
<1>7. Acts(q)'
  BY <1>2, OutActs
<1>8. \A r \in Proposals : r # cur[q] /\ Minds(q, r) => Minds(q, r)'
  BY <1>1 DEF Minds, Finishing, Recovering
<1>9. LedgerInv' /\ UNCHANGED <<Standing, OnRecord>>
  BY <1>0, <1>1, <1>2, <1>4, <1>5, <1>7, <1>8, JournalKeeps
<1> QED
  BY <1>6, <1>9 DEF Simulated
-------------------------------------------------------------------------------
(* Steps that write a proposal.                                                *)

LEMMA FileKeeps ==
  ASSUME OneReviewer, LedgerInv, Orderly, OfferInv', NEW q \in Procs, Separate(q),
         UNCHANGED <<files, txn>>, OwnFile(q), cur[q] \in Desk[q], Calm \/ OnFiles(q),
         mem'[q].ed \in Editions, Agree(mem'[q].applied),
         \A d \in Dirs : box'[d][cur[q]] # Absent =>
            \/ box'[d][cur[q]] = box[d][cur[q]]
            \/ box'[d][cur[q]].ed \in Editions /\ Agree(box'[d][cur[q]].applied),
         \A p \in Proposals : Open(p)' => Open(p) /\ (Minds(q, p) => Minds(q, p)'),
         Acts(q)'
  PROVE  LedgerInv'
<1>1. Records'
  <2>1. \A d \in Dirs, p \in Proposals : box'[d][p] # Absent =>
          box'[d][p] = box[d][p] \/ (box'[d][p].ed \in Editions /\ Agree(box'[d][p].applied))
    BY DEF OwnFile
  <2> QED
    BY <2>1, RecordsKept DEF LedgerInv
<1>2. Journals'
  BY DEF LedgerInv, Journals
<1>3. \A p \in Proposals : Open(p)' => Minds(q, p)' \/ (Open(p) /\ ~Minds(q, p))
  OBVIOUS
<1> QED
  BY <1>1, <1>2, <1>3, StepKeeps

(* A write that leaves accepted/ with the same proposals does not show.        *)
LEMMA SameAccepted ==
  ASSUME LedgerInv, OfferInv', UNCHANGED <<files, txn>>,
         \A p \in Proposals : box'["accepted"][p] # Absent <=> box["accepted"][p] # Absent
  PROVE  Calm /\ \A p \in Proposals : Open(p)' <=> Open(p)
<1>1. \A p \in Proposals : Open(p)' <=> Open(p)
  BY DEF Open, Committed, Exists
<1>2. Journals'
  BY <1>1 DEF LedgerInv, Journals
<1>3. View' = View
  BY <1>1, <1>2, SameView DEF LedgerInv, OfferInv, IndInv
<1> QED
  BY <1>1, <1>3 DEF Calm, Exists

LEMMA MoveUnlinkLedger ==
  ASSUME OneReviewer, LedgerInv, Orderly, OfferInv', NEW q \in Procs, MoveUnlink(q)
  PROVE  LedgerInv' /\ Simulated
<1>0. /\ TypeOK /\ IndInv /\ Separate(q) /\ AtStep(q) /\ Reviews(q) /\ Applies(q)
      /\ Knows(q) /\ mem[q] \in Proposal
  BY StepsSeparate DEF LedgerInv, OfferInv, IndInv, TypeOK, Work, MoveStep, Acts
<1>1. /\ OwnFile(q) /\ UNCHANGED <<goal, cur>>
      /\ pc[q] = "unlink" /\ pc'[q] = "drop" /\ goal[q] \in {"accepted", "rejected"}
      /\ mem'[q].status = goal[q] /\ mem'[q].applied = mem[q].applied
      /\ box'[Dir(mem[q].status)][cur[q]] = Absent
      /\ \A d \in Dirs \ {Dir(mem[q].status)} : box'[d] = box[d]
  BY <1>0, MoveUnlinkDoes
<1>2. Dir(mem[q].status) = "pending" /\ cur[q] \in Desk[q]
  BY <1>0, <1>1 DEF Knows, Busy, Dir
<1>3. UNCHANGED <<files, txn, plan>> /\ mem'[q].ed = mem[q].ed
  <2>1. UNCHANGED <<files, txn, plan>> /\ mem'[q] = [mem[q] EXCEPT !.status = goal[q]]
    BY <1>0 DEF MoveUnlink, TypeOK
  <2> QED
    BY <1>0, <2>1 DEF Proposal
<1>4. box'["accepted"] = box["accepted"] /\ box'["rejected"] = box["rejected"]
  BY <1>1, <1>2 DEF Dirs
<1>5. Calm /\ \A p \in Proposals : Open(p)' <=> Open(p)
  BY <1>3, <1>4, SameAccepted
<1>6. Unsettled(cur[q])
  BY <1>0, <1>1 DEF Reviews, Moving
<1>7. Reviews(q)'
  BY <1>1, <1>4, <1>6 DEF Reviews, Unsettled, Exists, Planned
<1>8. Applies(q)'
  <2>1. CASE goal[q] = "rejected"
    BY <1>1, <2>1 DEF Applies, Applying
  <2>2. CASE goal[q] = "accepted"
    <3>1. /\ plan[q] = PlanOf(cur[q], mem[q].ed, View)
          /\ txn[cur[q]] # Absent /\ txn[cur[q]].known
          /\ txn[cur[q]].changes = JournalFor(plan[q]) /\ Written(q, Len(plan[q]))
          /\ mem[q].applied = Recorded(plan[q])
      BY <1>0, <1>1, <2>2 DEF Applies, Applying, Moving
    <3>2. Written(q, Len(plan[q]))' /\ View' = View
      BY <1>3, <1>5, <3>1 DEF Written, Calm
    <3> QED
      BY <1>1, <1>3, <3>1, <3>2 DEF Applies, JournalFor
  <2> QED
    BY <1>1, <2>1, <2>2
<1>9. Acts(q)'
  BY <1>1, <1>7, <1>8 DEF Acts, Undoes, Restores, Undoing
<1>10. \A p \in Proposals : Minds(q, p) => Minds(q, p)'
  BY <1>1 DEF Minds, Finishing, Restoring, Recovering, Applying, Moving
<1>11. /\ mem'[q].ed \in Editions /\ Agree(mem'[q].applied)
       /\ \A d \in Dirs : box'[d][cur[q]] # Absent => box'[d][cur[q]] = box[d][cur[q]]
  BY <1>1, <1>3 DEF LedgerInv, Records
<1>12. LedgerInv'
  BY <1>0, <1>1, <1>2, <1>3, <1>5, <1>9, <1>10, <1>11, FileKeeps
<1>13. UNCHANGED <<Standing, OnRecord>>
  BY <1>4, SameStanding DEF Exists
<1> QED
  BY <1>5, <1>12, <1>13 DEF Simulated, Calm

LEMMA MarkRolledBackLedger ==
  ASSUME OneReviewer, LedgerInv, Orderly, OfferInv', NEW q \in Procs, MarkRolledBack(q)
  PROVE  LedgerInv' /\ Simulated
<1>0. /\ TypeOK /\ IndInv /\ Separate(q) /\ AtStep(q) /\ Undoes(q) /\ Knows(q)
      /\ mem[q] \in Proposal
  BY StepsSeparate DEF LedgerInv, OfferInv, IndInv, TypeOK, Work, UndoStep, Acts
<1>1. /\ OwnFile(q) /\ pc[q] = "undo" /\ pc'[q] = "row" /\ goal'[q] = "rolled_back"
      /\ UNCHANGED <<files, txn, undo>> /\ idx[q] = 0 /\ cur[q] \in Proposals
      /\ box'["accepted"][cur[q]] = mem'[q]
      /\ \A d \in Dirs \ {"accepted"} : box'[d] = box[d]
  <2>1. OwnFile(q) /\ pc[q] = "undo" /\ pc'[q] = "row"
        /\ \A d \in Dirs \ {"accepted"} : box'[d] = box[d]
    BY <1>0, MarkRolledBackDoes
  <2> QED
    BY <1>0, <2>1 DEF MarkRolledBack, TypeOK, AtStep, Dirs, OwnFile
<1>2. mem'[q].status = "rolled_back" /\ mem'[q].applied = mem[q].applied /\ mem'[q].ed = mem[q].ed
      /\ mem'[q] # Absent
  <2>1. mem'[q] = [mem[q] EXCEPT !.status = "rolled_back"]
    BY <1>0 DEF MarkRolledBack, TypeOK
  <2>2. mem'[q] \in Proposal
    BY <1>0, <2>1 DEF Proposal, Statuses
  <2> QED
    BY <1>0, <2>1, <2>2, AbsentAssumption DEF Proposal
<1>3. /\ Exists("accepted", cur[q]) /\ box["accepted"][cur[q]] = mem[q]
      /\ mem[q].status = "accepted" /\ undo[q] = mem[q].applied /\ Restored(q, 0)
  BY <1>0, <1>1 DEF Undoes, Undoing
<1>4. \A p \in Proposals : box'["accepted"][p] # Absent <=> box["accepted"][p] # Absent
  BY <1>1, <1>2, <1>3 DEF OwnFile, Exists, Dirs
<1>5. Calm /\ \A p \in Proposals : Open(p)' <=> Open(p)
  BY <1>1, <1>4, SameAccepted
<1>6. Acts(q)'
  BY <1>1 DEF Acts, Reviews, Applies, Undoes, Restores, Applying, Moving, Planned, Undoing
<1>7. \A p \in Proposals : ~Minds(q, p)
  BY <1>1, MindsNothing DEF Applying, Moving
<1>8. /\ mem'[q].ed \in Editions /\ Agree(mem'[q].applied) /\ cur[q] \in Desk[q]
      /\ \A d \in Dirs : box'[d][cur[q]] = box[d][cur[q]] \/ box'[d][cur[q]] = mem'[q]
  BY <1>0, <1>1, <1>2 DEF LedgerInv, Records, Knows, Busy, Undoing
<1>9. LedgerInv'
  BY <1>0, <1>1, <1>5, <1>6, <1>7, <1>8, FileKeeps
<1>10. \A j \in DOMAIN undo[q] : View[undo[q][j].target] = undo[q][j].before
  <2>1. View = files
    BY <1>1, NothingOpen DEF Undoing
  <2>2. undo[q] \in Seq(AppliedChange)
    BY <1>0, <1>1 DEF AtStep
  <2>3. \A j \in DOMAIN undo[q] : j > 0
    <3> HIDE DEF AppliedChange
    <3> QED
      BY <2>2
  <2> QED
    BY <1>3, <2>1, <2>3 DEF Restored
<1>11. UNCHANGED OnRecord
  <2>1. \A p \in Proposals : Exists("accepted", p) =>
          box'["accepted"][p].applied = box["accepted"][p].applied
    BY <1>1, <1>2, <1>3 DEF OwnFile, Dirs
  <2> QED
    BY <1>4, <2>1 DEF OnRecord, Exists
<1>12. Standing' = [Standing EXCEPT ![cur[q]] = "rolled_back"]
  <2>1. Standing'[cur[q]] = "rolled_back"
    BY <1>1, <1>2 DEF Standing, Exists
  <2>2. \A p \in Proposals \ {cur[q]} : Standing'[p] = Standing[p]
    BY <1>1 DEF Standing, OwnFile, Exists, Dirs
  <2> QED
    BY <2>1, <2>2 DEF Standing
<1>13. Standing[cur[q]] = "accepted" /\ OnRecord[cur[q]] = undo[q]
  BY <1>1, <1>3 DEF Standing, OnRecord
<1>14. Ledger!RollBack(cur[q])
  BY <1>5, <1>10, <1>11, <1>12, <1>13 DEF Ledger!RollBack, OnRecord, Calm
<1> QED
  BY <1>1, <1>9, <1>14 DEF Simulated, Ledger!Next

(* A proposal that is not accepted is written.                                 *)
LEMMA OtherWrite ==
  ASSUME OneReviewer, LedgerInv, Orderly, OfferInv', NEW q \in Procs, WriteProposal(q),
         goal[q] # "accepted"
  PROVE  LedgerInv' /\ Simulated
<1>0. /\ TypeOK /\ IndInv /\ Separate(q) /\ AtStep(q) /\ Reviews(q) /\ Knows(q)
      /\ mem[q] \in Proposal /\ mem[q] # Absent
  <2>1. TypeOK /\ IndInv /\ AtStep(q) /\ Reviews(q) /\ Knows(q)
    BY DEF LedgerInv, OfferInv, IndInv, Acts
  <2>2. Separate(q)
    BY <2>1, StepsSeparate DEF Work, MoveStep
  <2>3. mem[q] \in Proposal
    BY <2>1 DEF TypeOK
  <2> QED
    BY <2>1, <2>2, <2>3, AbsentAssumption
<1>1. /\ OwnFile(q) /\ pc[q] = "write" /\ pc'[q] = "row" /\ cur[q] \in Proposals
      /\ Dir(mem[q].status) \in Dirs /\ box'[Dir(mem[q].status)][cur[q]] = mem[q]
      /\ \A d \in Dirs \ {Dir(mem[q].status)} : box'[d] = box[d]
      /\ UNCHANGED <<files, txn, goal, cur, mem>>
  <2>1. UNCHANGED <<files, txn, goal, cur, mem>>
    BY DEF WriteProposal
  <2> QED
    BY <1>0, <2>1, WriteProposalDoes DEF OwnFile
<1>2. /\ \A p \in Proposals : ~Minds(q, p)
      /\ Acts(q)' /\ cur[q] \in Desk[q] /\ mem[q].ed \in Editions /\ Agree(mem[q].applied)
  <2>1. \A p \in Proposals : ~Minds(q, p)
    BY <1>1, MindsNothing DEF Applying
  <2>2. Acts(q)'
    BY <1>1 DEF Acts, Reviews, Applies, Undoes, Restores, Applying, Moving, Planned, Undoing
  <2> QED
    BY <1>0, <1>1, <2>1, <2>2 DEF Knows, Busy, LedgerInv, Records
<1>3. \A d \in Dirs : box'[d][cur[q]] = box[d][cur[q]] \/ box'[d][cur[q]] = mem[q]
  BY <1>1
<1>4. ASSUME \A p \in Proposals : box'["accepted"][p] # Absent <=> box["accepted"][p] # Absent
      PROVE  LedgerInv' /\ Calm
  <2>1. Calm /\ \A p \in Proposals : Open(p)' <=> Open(p)
    BY <1>1, <1>4, SameAccepted
  <2> QED
    BY <1>0, <1>1, <1>2, <1>3, <2>1, FileKeeps
<1>5. CASE goal[q] = "rejected"
  <2>1. Dir(mem[q].status) = "rejected" /\ Unsettled(cur[q])
    BY <1>0, <1>1, <1>5 DEF Reviews, Moving, Dir
  <2>2. box'["accepted"] = box["accepted"]
    BY <1>1, <2>1 DEF Dirs
  <2>3. LedgerInv' /\ Calm
    BY <1>4, <2>2
  <2>4. Standing[cur[q]] = "open" /\ Standing'[cur[q]] = "rejected"
    BY <1>0, <1>1, <2>1, <2>2 DEF Standing, Unsettled, Exists
  <2>5. \A p \in Proposals \ {cur[q]} : Standing'[p] = Standing[p]
    BY <1>1 DEF Standing, OwnFile, Exists, Dirs
  <2>6. Standing' = [Standing EXCEPT ![cur[q]] = "rejected"]
    BY <2>4, <2>5 DEF Standing
  <2>7. UNCHANGED OnRecord
    BY <2>2 DEF OnRecord, Exists
  <2>8. Ledger!Reject(cur[q])
    BY <2>3, <2>4, <2>6, <2>7 DEF Ledger!Reject, OnRecord, Calm
  <2> QED
    BY <1>1, <2>3, <2>8 DEF Simulated, Ledger!Next
<1>6. CASE goal[q] # "rejected"
  <2>1. \A s \in {"accepted", "rejected"}, p \in Proposals : box'[s][p] = box[s][p]
    <3>1. CASE mem[q].status \in {"accepted", "rejected"}
      <4>1. Dir(mem[q].status) = mem[q].status
        BY <3>1 DEF Dir
      <4>2. box[mem[q].status][cur[q]] = mem[q]
        BY <1>0, <1>1, <1>6, <3>1 DEF Reviews
      <4> QED
        BY <1>1, <4>1, <4>2 DEF OwnFile, Dirs
    <3>2. CASE mem[q].status \notin {"accepted", "rejected"}
      <4>1. Dir(mem[q].status) = "pending"
        BY <3>2 DEF Dir
      <4> QED
        BY <1>1, <4>1 DEF Dirs
    <3> QED
      BY <3>1, <3>2
  <2>2. LedgerInv' /\ Calm
    BY <1>4, <2>1
  <2>3. UNCHANGED <<Standing, OnRecord>>
    BY <2>1, SameStanding DEF Exists
  <2> QED
    BY <2>2, <2>3 DEF Simulated, Calm
<1> QED
  BY <1>5, <1>6

(* The assets are what the plan makes of them once all of it is written.       *)
LEMMA AllWritten ==
  ASSUME LedgerInv, Orderly, NEW q \in Procs, Applying(q), pc[q] # "replace"
  PROVE  files = Ledger!Applied(plan[q], View)
<1>0. TypeOK /\ Journals /\ Applies(q) /\ plan[q] \in Seq(PlannedChange)
  BY DEF LedgerInv, OfferInv, IndInv, TypeOK, Acts
<1>1. /\ plan[q] = PlanOf(cur[q], mem[q].ed, View)
      /\ txn[cur[q]].changes = JournalFor(plan[q]) /\ Written(q, Len(plan[q]))
  BY <1>0 DEF Applies
<1>2. DOMAIN plan[q] = 1..Len(plan[q]) /\ Len(plan[q]) \in Nat
  <2> HIDE DEF PlannedChange
  <2> QED
    BY <1>0
<1> DEFINE hits(t) == {i \in DOMAIN plan[q] : plan[q][i].target = t}
           last(t) == CHOOSE i \in hits(t) : \A j \in hits(t) : j <= i
<1>3. Ledger!Applied(plan[q], View) =
        [t \in Targets |-> IF hits(t) = {} THEN View[t] ELSE plan[q][last(t)].after]
  BY DEF Ledger!Applied
<1>4. ASSUME NEW t \in Targets, hits(t) = {} PROVE View[t] = files[t]
  <2>1. \A p \in Proposals : Open(p) => ~HitBy(p, t)
    <3> SUFFICES ASSUME NEW p \in Proposals, Open(p) PROVE ~HitBy(p, t)
      OBVIOUS
    <3>1. p = cur[q]
      BY InHand, OpenIsOwn DEF Finishing
    <3>2. \A i \in DOMAIN JournalFor(plan[q]) : JournalFor(plan[q])[i].target # t
      BY <1>4 DEF JournalFor
    <3> QED
      BY <1>1, <3>1, <3>2 DEF HitBy
  <2> QED
    BY <1>0, <2>1, ViewNow DEF ViewFact
<1>5. ASSUME NEW t \in Targets, hits(t) # {} PROVE files[t] = plan[q][last(t)].after
  <2>1. hits(t) \subseteq 1..Len(plan[q])
    BY <1>2
  <2>2. \E m \in hits(t) : \A n \in hits(t) : n <= m
    BY <1>2, <1>5, <2>1, Greatest
  <2>3. last(t) \in hits(t) /\ \A n \in hits(t) : n <= last(t)
    BY <2>2
  <2> HIDE DEF last
  <2>4. \A k \in DOMAIN plan[q] : last(t) < k => plan[q][k].target # t
    BY <1>2, <2>3
  <2> QED
    BY <1>1, <1>2, <2>3, <2>4 DEF Written
<1>6. files = [t \in Targets |-> files[t]]
  BY <1>0 DEF TypeOK
<1> HIDE DEF hits, last
<1> QED
  BY <1>3, <1>4, <1>5, <1>6

(* The ledger plans as the store does.                                         *)
LEMMA LedgerPlan ==
  ASSUME NEW p, NEW e, NEW found
  PROVE  Ledger!PlanOf(p, e, found) = PlanOf(p, e, found)
<1>1. \A op, c, item : Ledger!After(op, c, item) = After(op, c, item)
  BY DEF Ledger!After, After, Ledger!Holds, Holds, Ledger!Lines, Lines
<1> QED
  BY <1>1 DEF Ledger!PlanOf, PlanOf

(* The accepted file is written: everything it recorded is accepted at once.   *)
LEMMA AcceptWrite ==
  ASSUME OneReviewer, LedgerInv, Orderly, OfferInv', NEW q \in Procs, WriteProposal(q),
         goal[q] = "accepted"
  PROVE  LedgerInv' /\ Simulated
<1>0. /\ TypeOK /\ IndInv /\ Separate(q) /\ Reviews(q) /\ Applies(q)
      /\ mem[q] \in Proposal /\ mem[q] # Absent
  <2>1. TypeOK /\ IndInv /\ Reviews(q) /\ Applies(q)
    BY DEF LedgerInv, OfferInv, IndInv, Acts
  <2>2. Separate(q)
    BY <2>1, StepsSeparate DEF Work, MoveStep
  <2>3. mem[q] \in Proposal
    BY <2>1 DEF TypeOK
  <2> QED
    BY <2>1, <2>2, <2>3, AbsentAssumption
<1>1. /\ OwnFile(q) /\ pc[q] = "write" /\ pc'[q] = "row"
      /\ Dir(mem[q].status) \in Dirs /\ box'[Dir(mem[q].status)][cur[q]] = mem[q]
      /\ \A d \in Dirs \ {Dir(mem[q].status)} : box'[d] = box[d]
      /\ UNCHANGED <<files, txn, goal, cur, mem, plan>>
  <2>1. UNCHANGED <<files, txn, goal, cur, mem, plan>>
    BY DEF WriteProposal
  <2> QED
    BY <1>0, <2>1, WriteProposalDoes
<1>2. Applying(q)
  BY <1>1 DEF Applying, Moving
<1>3. /\ cur[q] \in Desk[q] /\ cur[q] \in Proposals /\ Unsettled(cur[q]) /\ OnFiles(q) /\ InApply(q)
  BY <1>2, InHand
<1>4. /\ txn[cur[q]] # Absent /\ txn[cur[q]].known /\ mem[q].applied = Recorded(plan[q])
      /\ plan[q] = PlanOf(cur[q], mem[q].ed, View)
  BY <1>0, <1>1, <1>2 DEF Applies, Moving
<1>5. Dir(mem[q].status) = "accepted" /\ mem[q].status = "accepted"
  BY <1>0, <1>1 DEF Reviews, Dir
<1>6. /\ box'["accepted"][cur[q]] = mem[q]
      /\ \A p \in Proposals \ {cur[q]} : box'["accepted"][p] = box["accepted"][p]
      /\ box'["rejected"] = box["rejected"]
  BY <1>1, <1>5 DEF OwnFile, Dirs
<1>7. \A p \in Proposals : ~Open(p)'
  <2>1. ASSUME NEW p \in Proposals, p = cur[q] PROVE ~Open(p)'
    BY <1>0, <1>1, <1>4, <1>6, <2>1 DEF Open, Committed, Exists
  <2>2. ASSUME NEW p \in Proposals, p # cur[q] PROVE ~Open(p)'
    <3>1. ~Open(p)
      BY <1>3, <2>2, OpenIsOwn DEF Finishing
    <3> QED
      BY <1>1, <1>6, <2>2, <3>1 DEF Open, Committed, Exists
  <2> QED
    BY <2>1, <2>2
<1>8. Acts(q)'
  BY <1>0, <1>1, <1>4, <1>6 DEF Acts, Reviews, Applies, Undoes, Restores, Applying, Moving, Planned,
                                Undoing, Exists
<1>9. LedgerInv'
  <2>1. mem[q].ed \in Editions /\ Agree(mem[q].applied)
    BY DEF LedgerInv, Records
  <2>2. \A d \in Dirs : box'[d][cur[q]] = box[d][cur[q]] \/ box'[d][cur[q]] = mem[q]
    BY <1>1
  <2> QED
    BY <1>0, <1>1, <1>3, <1>7, <1>8, <2>1, <2>2, FileKeeps
<1>10. View' = files
  <2>1. \A t \in Targets : View'[t] = files'[t]
    BY <1>7, <1>9, ViewThen DEF ViewFact, LedgerInv, OfferInv, IndInv
  <2>2. files = [t \in Targets |-> files[t]]
    BY <1>0 DEF TypeOK
  <2> QED
    BY <1>1, <2>1, <2>2, ViewIsFunctionThen
<1>11. View' = Ledger!Applied(plan[q], View)
  BY <1>1, <1>2, <1>10, AllWritten
<1>12. Standing[cur[q]] = "open" /\ Standing' = [Standing EXCEPT ![cur[q]] = "accepted"]
  <2>1. Standing[cur[q]] = "open" /\ Standing'[cur[q]] = "accepted"
    BY <1>0, <1>1, <1>3, <1>5, <1>6 DEF Standing, Unsettled, Exists
  <2>2. \A p \in Proposals \ {cur[q]} : Standing'[p] = Standing[p]
    BY <1>6 DEF Standing, Exists
  <2> QED
    BY <2>1, <2>2 DEF Standing
<1>13. OnRecord' = [OnRecord EXCEPT ![cur[q]] = Recorded(plan[q])]
  <2>1. OnRecord'[cur[q]] = Recorded(plan[q])
    BY <1>0, <1>3, <1>4, <1>6 DEF OnRecord, Exists
  <2>2. \A p \in Proposals \ {cur[q]} : OnRecord'[p] = OnRecord[p]
    BY <1>6 DEF OnRecord, Exists
  <2> QED
    BY <2>1, <2>2 DEF OnRecord
<1>14. ASSUME NEW p \in Proposals, p = cur[q] PROVE Ledger!Accept(p)
  <2>1. mem[q].ed \in Ledger!Editions
    BY DEF LedgerInv, Records, Ledger!Editions, Editions
  <2>2. Ledger!PlanOf(p, mem[q].ed, View) = plan[q]
    BY <1>4, <1>14, LedgerPlan
  <2>3. Recorded(plan[q]) = Ledger!Recorded(plan[q])
    BY DEF Recorded, Ledger!Recorded
  <2> QED
    BY <1>11, <1>12, <1>13, <1>14, <2>1, <2>2, <2>3 DEF Ledger!Accept, OnRecord
<1> QED
  BY <1>3, <1>9, <1>14 DEF Simulated, Ledger!Next

-------------------------------------------------------------------------------
(* Every step, and the theorems.                                               *)

LEMMA LedgerStep ==
  ASSUME OneReviewer, LedgerInv, Orderly, OfferInv', NEW q \in Procs,
         LoadOp(q) \/ Work(q) \/ Start(q) \/ Fault(q) \/ Crash(q)
  PROVE  LedgerInv' /\ Simulated
<1>1. CASE LoadOp(q)
  BY <1>1, LoadOpLedger
<1>2. CASE ApplyStep(q)
  BY <1>2, EndsLedger, RestoresLedger, AcquireLockLedger, PlanChangesLedger, StageChangesLedger,
     WriteJournalLedger, ReplaceTargetLedger, CommitFilesLedger, IndexTargetLedger,
     RecordAppliedLedger, CleanUpLedger DEF ApplyStep
<1>3. CASE MoveStep(q)
  BY <1>3, MoveUnlinkLedger, MoveDropRowLedger, OtherWrite, AcceptWrite, IndexProposalLedger
     DEF MoveStep
<1>4. CASE UndoStep(q)
  BY <1>4, RewritesLedger, UndoIndexLedger, MarkRolledBackLedger DEF UndoStep
<1>5. CASE RecoverStep(q)
  BY <1>5, RestoreTargetLedger, RestoreDoneLedger, DiscardCommittedLedger, RestoresLedger, EndsLedger
     DEF RecoverStep
<1>6. CASE Start(q) \/ Fault(q) \/ Crash(q)
  BY <1>6, StartLedger, FaultLedger, EndsLedger
<1> QED
  BY <1>1, <1>2, <1>3, <1>4, <1>5, <1>6 DEF Work

LEMMA LedgerNext ==
  ASSUME OneReviewer, LedgerInv, Orderly, [Next]_vars
  PROVE  LedgerInv' /\ Simulated
<1>1. OfferInv'
  BY OfferNext DEF LedgerInv
<1>2. CASE Next
  BY <1>1, <1>2, LedgerStep DEF Next
<1>3. CASE UNCHANGED vars
  <2>1. UNCHANGED <<files, box, txn, pc, goal, cur, mem, plan, undo, idx, todo>>
    BY <1>3 DEF vars, disk, local
  <2>2. /\ UNCHANGED <<View, Standing, OnRecord>> /\ Journals'
        /\ \A p \in Proposals : Open(p)' <=> Open(p)
    BY <2>1, NoDisk DEF LedgerInv
  <2>3. Records'
    BY <2>1 DEF LedgerInv, Records, Exists
  <2>4. \A p, q : Minds(q, p)' <=> Minds(q, p)
    BY <2>1 DEF Minds, Finishing, Applying, Restoring, Recovering, Moving
  <2>5. Minded'
    BY <2>2, <2>4 DEF LedgerInv, Minded
  <2>6. \A q \in Procs : Acts(q)'
    <3> TAKE q \in Procs
    <3>1. Reviews(q) /\ Applies(q) /\ Undoes(q) /\ Restores(q)
      BY DEF LedgerInv, Acts
    <3>2. Reviews(q)'
      BY <2>1, <3>1 DEF Reviews, Unsettled, Exists
    <3>3. Applies(q)'
      BY <2>1, <2>2, <3>1 DEF Applies, Applying, Moving, Written, JournalFor, Exists
    <3>4. Undoes(q)'
      BY <2>1, <3>1 DEF Undoes, Restored, OthersRestored, Exists
    <3>5. Restores(q)'
      BY <2>1, <3>1 DEF Restores, Restored, Committed, Exists, JournalOf
    <3> QED
      BY <3>2, <3>3, <3>4, <3>5 DEF Acts
  <2> QED
    BY <1>1, <2>2, <2>3, <2>5, <2>6 DEF LedgerInv, Simulated
<1> QED
  BY <1>2, <1>3

LEMMA LedgerInit == Init => LedgerInv /\ Ledger!Init
<1> SUFFICES ASSUME Init PROVE LedgerInv /\ Ledger!Init
  OBVIOUS
<1>1. OfferInv /\ TypeOK
  BY OfferInit DEF OfferInv, IndInv
<1>2. \A p \in Proposals : txn[p] = Absent /\ ~Open(p)
  BY DEF Init, Open
<1>3. Records
  BY NoRecFits, AbsentAssumption DEF Init, Records, Exists
<1>4. Journals /\ Minded
  BY <1>2 DEF Journals, Minded
<1>5. \A q \in Procs : Acts(q)
  BY DEF Init, Acts, Reviews, Applies, Undoes, Restores, Planned, Moving, Undoing, Applying
<1>6. LedgerInv
  BY <1>1, <1>3, <1>4, <1>5 DEF LedgerInv
<1>7. View \in [Targets -> {Absent, <<>>}]
  <2>1. \A t \in Targets : View[t] = files[t]
    BY <1>1, <1>2, <1>4, ViewNow DEF ViewFact
  <2>2. \A t \in Targets : files[t] \in {Absent, <<>>}
    BY DEF Init
  <2> QED
    BY <2>1, <2>2, ViewIsFunction
<1>8. \A p \in Proposals : ~Exists("accepted", p) /\ ~Exists("rejected", p)
  BY DEF Init, Exists, Dirs
<1> QED
  BY <1>6, <1>7, <1>8 DEF Ledger!Init, Standing

LEMMA LedgerKept == ASSUME OneReviewer PROVE Spec /\ []Orderly => []LedgerInv
<1>1. Init => LedgerInv
  BY LedgerInit
<1>2. LedgerInv /\ Orderly /\ [Next]_vars => LedgerInv'
  BY LedgerNext
<1> QED
  BY <1>1, <1>2, PTL DEF Spec

(* The store implements the ledger in every behaviour in which no process      *)
(* recovers or rolls back while another one changes assets, and what a killed  *)
(* process left behind is recovered before the next accept or rollback.        *)
LEMMA StoreImplementsLedger ==
  ASSUME OneReviewer PROVE Spec /\ []Orderly => AtomicLedger
<1>1. Init => Ledger!Init
  BY LedgerInit
<1>2. LedgerInv /\ Orderly /\ [Next]_vars
        => Ledger!Next \/ UNCHANGED <<View, Standing, OnRecord>>
  BY LedgerNext DEF Simulated
<1>3. LedgerInv /\ Orderly /\ [Next]_vars
        => [Ledger!Next]_<<View, Standing,
              [p \in Proposals |-> IF Exists("accepted", p) THEN box["accepted"][p].applied
                                                            ELSE <<>>]>>
  BY <1>2 DEF OnRecord
<1> QED
  BY <1>1, <1>3, LedgerKept, PTL DEF Spec, AtomicLedger, Ledger!Spec

(* One process on the tree, which may fail and be killed at every step, is     *)
(* always orderly.                                                             *)
LEMMA OneProcess ==
  ASSUME \A q, r \in Procs : q = r
  PROVE  OneReviewer /\ Orderly
  BY DEF OneReviewer, Orderly

(* AtomicLedger for one process: whatever step fails and wherever it is        *)
(* killed, it accepts all changes of a proposal or none, seen through the      *)
(* recovery that every start begins with.                                      *)
THEOREM AtomicAlone ==
  ASSUME \A q, r \in Procs : q = r PROVE Spec => AtomicLedger
<1>1. OneReviewer /\ Orderly
  BY OneProcess
<1>2. Spec => []Orderly
  BY <1>1, PTL
<1> QED
  BY <1>1, <1>2, StoreImplementsLedger, PTL

(* Processes that accept, reject, edit and give feedback, and are not killed,  *)
(* come to no step of a recovery or rollback.                                  *)
Reviewing == /\ spent \in [ops : Nat, crashes : {0}, faults : Nat]
             /\ \A q \in Procs : pc[q] \notin Undoing \cup {"down"} /\ ~Recovering(q)

LEMMA ReviewingNext ==
  ASSUME IndInv, Reviewing, [Next]_vars, MaxCrashes = 0, Ops \cap {"rollback", "start"} = {}
  PROVE  Reviewing'
<1>0. TypeOK
  BY DEF IndInv
<1>1. CASE UNCHANGED vars
  BY <1>1 DEF vars, local, Reviewing, Recovering
<1>2. ASSUME NEW q \in Procs, LoadOp(q) \/ Work(q) \/ Start(q) \/ Fault(q) \/ Crash(q)
      PROVE  Reviewing'
  <2>1. Separate(q)
    BY <1>0, <1>2, StepsSeparate
  <2>2. /\ pc[q] \notin {"undo", "rewrite", "reindex", "down", "recover"}
        /\ ~(pc[q] = "restore" /\ goal[q] = "recovered")
        /\ spent \in [ops : Nat, crashes : {0}, faults : Nat]
    BY DEF Reviewing, Recovering, Undoing
  <2>3. ASSUME spent' = spent \/ Spend("ops") \/ Spend("faults"),
               pc'[q] \notin {"undo", "rewrite", "reindex", "down", "recover"},
               ~(pc'[q] = "restore" /\ goal'[q] = "recovered")
        PROVE  Reviewing'
    <3>1. spent' \in [ops : Nat, crashes : {0}, faults : Nat]
      BY <2>2, <2>3 DEF Spend
    <3>2. \A r \in Procs : pc'[r] \notin Undoing \cup {"down"}
                           /\ ~(pc'[r] = "recover" \/ (pc'[r] = "restore" /\ goal'[r] = "recovered"))
      BY <2>1, <2>3 DEF Separate, Reviewing, Recovering, Undoing
    <3> QED
      BY <3>1, <3>2 DEF Reviewing, Recovering
  <2>9. /\ \A to : pc' = [pc EXCEPT ![q] = to] => pc'[q] = to
        /\ BeginRestore(q, cur[q], "accepted") => pc'[q] = "restore" /\ goal'[q] = "accepted"
        /\ Leave(q, "idle") => pc'[q] = "idle"
    BY <1>0 DEF TypeOK, BeginRestore, Leave
  <2>4. CASE LoadOp(q)
    <3>1. ASSUME NEW op, NEW p, NEW rec, NEW to, NEW next, Load(q, op, p, rec, to, next)
          PROVE  Spend("ops") /\ pc'[q] = next /\ op \in Ops
      BY <1>0, <3>1 DEF Load, TypeOK
    <3>2. ~LoadRollback(q)
      BY <3>1 DEF LoadRollback
    <3>3. Spend("ops") /\ pc'[q] \in {"lock", "unlink", "write"}
      BY <2>4, <3>1, <3>2 DEF LoadOp, LoadAccept, LoadReject, LoadEdit, LoadFeedback
    <3> QED
      BY <2>3, <3>3
  <2>5. CASE Start(q)
    BY <2>2, <2>5 DEF Start
  <2>6. CASE Crash(q)
    <3>1. spent.crashes < 0 /\ spent.crashes = 0
      BY <2>2, <2>6 DEF Crash
    <3> QED
      BY <3>1
  <2>7. CASE Fault(q)
    <3>1. Spend("faults")
      BY <2>7 DEF Fault
    <3>2. \/ pc' = [pc EXCEPT ![q] = "release"]
          \/ BeginRestore(q, cur[q], "accepted") \/ Leave(q, "idle")
      BY <2>7 DEF Fault
    <3> QED
      BY <2>3, <2>9, <3>1, <3>2
  <2>8. CASE Work(q)
    <3>1. UNCHANGED spent
      BY <2>8 DEF Work, ApplyStep, MoveStep, UndoStep, RecoverStep, AcquireLock, LockTimeout, PlanChanges,
        StageChanges, WriteJournal, JournalFails, ReplaceTarget, ReplaceFails, CommitFiles,
        IndexTarget, RecordApplied, CleanUp, RaiseOut, MoveUnlink, MoveDropRow, WriteProposal,
        IndexProposal, Truncate, UndoTarget, UndoIndex, MarkRolledBack, RestoreTarget, RestoreDone,
        DiscardCommitted, RestoreInterrupted, RecoveryDone
    <3>2. ASSUME pc'[q] \notin {"undo", "rewrite", "reindex", "down", "recover"},
                 ~(pc'[q] = "restore" /\ goal'[q] = "recovered")
          PROVE  Reviewing'
      BY <2>3, <3>1, <3>2
    <3>3. CASE ApplyStep(q)
      <4>1. \/ pc' = pc /\ goal' = goal
            \/ \E to \in {"plan", "stage", "journal", "replace", "index", "unlink", "release"} :
                  pc' = [pc EXCEPT ![q] = to]
            \/ BeginRestore(q, cur[q], "accepted") \/ Leave(q, "idle")
        BY <3>3 DEF ApplyStep, AcquireLock, LockTimeout, PlanChanges, StageChanges, WriteJournal,
           JournalFails, ReplaceTarget, ReplaceFails, CommitFiles, IndexTarget, RecordApplied,
           CleanUp, RaiseOut, Step
      <4> QED
        BY <2>2, <2>9, <3>2, <4>1
    <3>4. CASE MoveStep(q)
      <4>1. \/ \E to \in {"drop", "write", "row", "clean"} : pc' = [pc EXCEPT ![q] = to]
            \/ Leave(q, "idle")
        BY <3>4 DEF MoveStep, MoveUnlink, MoveDropRow, WriteProposal, IndexProposal, Step
      <4> QED
        BY <2>9, <3>2, <4>1
    <3>5. CASE UndoStep(q)
      BY <2>2, <3>5 DEF UndoStep, Truncate, UndoTarget, UndoIndex, MarkRolledBack, Step
    <3>6. CASE RecoverStep(q)
      <4>1. (pc' = pc /\ goal' = goal) \/ pc' = [pc EXCEPT ![q] = "release"]
        BY <2>2, <3>6 DEF RecoverStep, RestoreTarget, RestoreDone, DiscardCommitted,
           RestoreInterrupted, RecoveryDone, Step
      <4> QED
        BY <2>2, <2>9, <3>2, <4>1
    <3> QED
      BY <2>8, <3>3, <3>4, <3>5, <3>6 DEF Work
  <2> QED
    BY <1>2, <2>4, <2>5, <2>6, <2>7, <2>8
<1> QED
  BY <1>1, <1>2 DEF Next

LEMMA ReviewersOrderly ==
  ASSUME OneReviewer, MaxCrashes = 0, Ops \cap {"rollback", "start"} = {}
  PROVE  Spec => []Orderly
<1>1. Init => Reviewing /\ IndInv
  BY InitInv DEF Init, Reviewing, Recovering, Undoing
<1>2. Reviewing /\ IndInv /\ [Next]_vars => Reviewing' /\ IndInv'
  BY ReviewingNext, NextInv
<1>3. Reviewing => Orderly
  BY DEF Reviewing, Orderly
<1> QED
  BY <1>1, <1>2, <1>3, PTL DEF Spec

(* AtomicLedger for any number of processes, each the only reviewer of its     *)
(* proposals, that accept, reject, edit and give feedback at the same time and *)
(* fail at any step: the flock orders what they accept.                        *)
THEOREM AtomicReviewers ==
  ASSUME OneReviewer, MaxCrashes = 0, Ops \cap {"rollback", "start"} = {}
  PROVE  Spec => AtomicLedger
  BY ReviewersOrderly, StoreImplementsLedger, PTL
-------------------------------------------------------------------------------
(* Whatever the assets hold was approved.                                      *)

Shows(c, p) == \E e \in Editions, i \in DOMAIN Changes[p] : Holds(c, <<p, e, i>>)

Settled(p) == Standing[p] \in {"accepted", "rolled_back"}

Approved ==
  /\ \A t \in Targets, p \in Proposals : Shows(View[t], p) => Settled(p)
  /\ \A r, p \in Proposals : \A i \in DOMAIN OnRecord[r] :
        Shows(OnRecord[r][i].before, p) => Settled(p)

(* A change adds its own contribution and no other.                            *)
LEMMA AfterHolds ==
  ASSUME NEW op \in {"append", "write", "merge"}, NEW c \in Content, NEW item, NEW x,
         Holds(After(op, c, item), x)
  PROVE  Holds(c, x) \/ x = item
<1>1. Lines(c) \in Seq(Proposals \X Nat \X Nat)
  BY DEF Lines, Content
<1>2. ASSUME Holds(Append(Lines(c), item), x), Append(Lines(c), item) # Absent
      PROVE  Holds(c, x) \/ x = item
  <2>1. PICK k \in DOMAIN Append(Lines(c), item) : Append(Lines(c), item)[k] = x
    BY <1>2 DEF Holds, Lines
  <2>2. k \in 1..Len(Lines(c)) + 1
    BY <1>1, <2>1
  <2>3. k = Len(Lines(c)) + 1 \/ (k \in DOMAIN Lines(c) /\ Lines(c)[k] = x)
    BY <1>1, <2>1, <2>2
  <2> QED
    BY <1>1, <2>1, <2>3 DEF Holds
<1>3. ASSUME Holds(<<item>>, x) PROVE x = item
  BY <1>3 DEF Holds, Lines
<1>4. ~Holds(Absent, x)
  BY DEF Holds, Lines
<1> QED
  BY <1>2, <1>3, <1>4 DEF After

LEMMA ViewContent ==
  ASSUME TypeOK, Journals, NEW t \in Targets
  PROVE  View[t] \in Content
<1>1. CASE \A p \in Proposals : Open(p) => ~HitBy(p, t)
  BY <1>1, ViewNow DEF ViewFact, TypeOK
<1>2. CASE \E p \in Proposals : Open(p) /\ HitBy(p, t)
  <2>1. PICK p \in Proposals : Open(p) /\ HitBy(p, t)
    BY <1>2
  <2>2. PICK i \in DOMAIN txn[p].changes : txn[p].changes[i].target = t
    BY <2>1 DEF HitBy
  <2>3. View[t] = txn[p].changes[i].before
    BY <2>1, <2>2, ViewNow DEF ViewFact
  <2>4. txn[p].changes \in Seq(JournalChange)
    BY <2>1 DEF TypeOK, Transaction, Open
  <2>5. txn[p].changes[i] \in JournalChange
    <3> HIDE DEF JournalChange
    <3> QED
      BY <2>2, <2>4
  <2> QED
    BY <2>3, <2>5 DEF JournalChange
<1> QED
  BY <1>1, <1>2

LEMMA ApprovedInit == Init => Approved
<1> SUFFICES ASSUME Init PROVE Approved
  OBVIOUS
<1>1. Ledger!Init
  BY LedgerInit
<1>2. \A t \in Targets : Lines(View[t]) = <<>>
  BY <1>1 DEF Ledger!Init, Lines
<1>3. \A r \in Proposals : OnRecord[r] = <<>>
  BY <1>1 DEF Ledger!Init, OnRecord
<1> QED
  BY <1>2, <1>3 DEF Approved, Shows, Holds

(* What a proposal's plan leaves in a target was there or is the proposal's.   *)
LEMMA AppliedShows ==
  ASSUME LedgerInv, NEW p \in Proposals, NEW e \in Editions, NEW t \in Targets, NEW r \in Proposals,
         Shows(Ledger!Applied(PlanOf(p, e, View), View)[t], r)
  PROVE  Shows(View[t], r) \/ r = p
<1> DEFINE s == PlanOf(p, e, View)
           hits == {i \in DOMAIN s : s[i].target = t}
           last == CHOOSE i \in hits : \A j \in hits : j <= i
           C == [target : Targets, op : {"append", "write", "merge"}]
<1>1. Ledger!Applied(s, View)[t] = IF hits = {} THEN View[t] ELSE s[last].after
  BY DEF Ledger!Applied
<1>2. CASE hits = {}
  BY <1>1, <1>2
<1>3. CASE hits # {}
  <2>1. /\ DOMAIN Changes[p] = 1..Len(Changes[p]) /\ Len(Changes[p]) \in Nat
        /\ \A i \in DOMAIN Changes[p] : Changes[p][i] \in C
    <3>1. Changes[p] \in Seq(C)
      BY ChangesAssumption
    <3> HIDE DEF C
    <3> QED
      BY <3>1
  <2>2. DOMAIN s = DOMAIN Changes[p]
    BY DEF PlanOf
  <2>3. last \in hits
    <3>1. \E m \in hits : \A n \in hits : n <= m
      <4> HIDE DEF s
      <4>1. hits \subseteq 1..Len(Changes[p])
        BY <2>1, <2>2
      <4> QED
        BY <1>3, <2>1, <4>1, Greatest
    <3> QED
      BY <3>1
  <2> HIDE DEF last
  <2>4. /\ last \in DOMAIN Changes[p] /\ Changes[p][last].target = t
        /\ s[last].after = After(Changes[p][last].op, View[t], <<p, e, last>>)
    BY <2>2, <2>3 DEF PlanOf
  <2>5. PICK f \in Editions, i \in DOMAIN Changes[r] : Holds(s[last].after, <<r, f, i>>)
    BY <1>1, <1>3 DEF Shows
  <2>6. View[t] \in Content /\ Changes[p][last].op \in {"append", "write", "merge"}
    BY <2>1, <2>4, ViewContent DEF LedgerInv, OfferInv, IndInv
  <2>7. Holds(View[t], <<r, f, i>>) \/ <<r, f, i>> = <<p, e, last>>
    BY <2>4, <2>5, <2>6, AfterHolds
  <2> QED
    BY <2>5, <2>7 DEF Shows
<1> QED
  BY <1>2, <1>3

LEMMA ApprovedThen ==
  ASSUME Approved,
         \A p \in Proposals : Settled(p) => Standing'[p] \in {"accepted", "rolled_back"},
         \A t \in Targets, p \in Proposals : Shows(View'[t], p) =>
            \/ Standing'[p] \in {"accepted", "rolled_back"}
            \/ \E u \in Targets : Shows(View[u], p)
            \/ \E r \in Proposals : \E i \in DOMAIN OnRecord[r] : Shows(OnRecord[r][i].before, p),
         \A r, p \in Proposals : \A i \in DOMAIN OnRecord'[r] : Shows(OnRecord'[r][i].before, p) =>
            \/ \E u \in Targets : Shows(View[u], p)
            \/ \E j \in DOMAIN OnRecord[r] : Shows(OnRecord[r][j].before, p)
  PROVE  Approved'
<1>1. \A t \in Targets, p \in Proposals :
        Shows(View'[t], p) => Standing'[p] \in {"accepted", "rolled_back"}
  BY DEF Approved
<1>2. \A r, p \in Proposals : \A i \in DOMAIN OnRecord'[r] :
        Shows(OnRecord'[r][i].before, p) => Standing'[p] \in {"accepted", "rolled_back"}
  BY DEF Approved
<1> QED
  BY <1>1, <1>2 DEF Approved, Settled, Shows

LEMMA ApprovedNext == LedgerInv /\ Approved /\ Simulated => Approved'
<1> SUFFICES ASSUME LedgerInv, Approved, Simulated PROVE Approved'
  OBVIOUS
<1>0. /\ Standing = [p \in Proposals |-> Standing[p]]
      /\ OnRecord = [p \in Proposals |-> OnRecord[p]]
  BY DEF Standing, OnRecord
<1>1. CASE UNCHANGED <<View, Standing, OnRecord>>
  BY <1>1, ApprovedThen DEF Settled
<1>2. ASSUME NEW p \in Proposals, Ledger!Reject(p) PROVE Approved'
  <2>1. /\ Standing[p] = "open" /\ Standing' = [Standing EXCEPT ![p] = "rejected"]
        /\ UNCHANGED <<View, OnRecord>>
    BY <1>2 DEF Ledger!Reject, OnRecord
  <2>2. \A r \in Proposals : Settled(r) => Standing'[r] \in {"accepted", "rolled_back"}
    BY <1>0, <2>1 DEF Settled
  <2> QED
    BY <2>1, <2>2, ApprovedThen
<1>3. ASSUME NEW p \in Proposals, Ledger!RollBack(p) PROVE Approved'
  <2>1. /\ Standing' = [Standing EXCEPT ![p] = "rolled_back"]
        /\ UNCHANGED <<View, OnRecord>>
    BY <1>3 DEF Ledger!RollBack, OnRecord
  <2>2. \A r \in Proposals : Settled(r) => Standing'[r] \in {"accepted", "rolled_back"}
    BY <1>0, <2>1 DEF Settled
  <2> QED
    BY <2>1, <2>2, ApprovedThen
<1>4. ASSUME NEW p \in Proposals, Ledger!Restore(p) PROVE Approved'
  <2>1. PICK i \in DOMAIN OnRecord[p] : \E c \in {OnRecord[p][i].before, <<>>} :
          View' = [View EXCEPT ![OnRecord[p][i].target] = c]
    BY <1>4 DEF Ledger!Restore, OnRecord
  <2>2. UNCHANGED <<Standing, OnRecord>>
    BY <1>4 DEF Ledger!Restore, OnRecord
  <2>3. \A t \in Targets :
          View'[t] = View[t] \/ View'[t] = OnRecord[p][i].before \/ View'[t] = <<>>
    BY <2>1, ViewIsFunction
  <2>4. \A r \in Proposals : ~Shows(<<>>, r)
    BY DEF Shows, Holds, Lines
  <2>5. \A t \in Targets, r \in Proposals : Shows(View'[t], r) =>
          (\E u \in Targets : Shows(View[u], r)) \/ Shows(OnRecord[p][i].before, r)
    <3> HIDE DEF Shows
    <3> QED
      BY <2>3, <2>4
  <2> QED
    BY <2>1, <2>2, <2>5, ApprovedThen DEF Settled
<1>5. ASSUME NEW p \in Proposals, Ledger!Accept(p) PROVE Approved'
  <2>1. PICK e \in Editions :
          /\ View' = Ledger!Applied(PlanOf(p, e, View), View)
          /\ OnRecord' = [OnRecord EXCEPT ![p] = Recorded(PlanOf(p, e, View))]
    <3>1. \A s : Ledger!Recorded(s) = Recorded(s)
      BY DEF Ledger!Recorded, Recorded
    <3> QED
      BY <1>5, <3>1, LedgerPlan DEF Ledger!Accept, OnRecord, Ledger!Editions, Editions
  <2>2. Standing[p] = "open" /\ Standing' = [Standing EXCEPT ![p] = "accepted"]
    BY <1>5 DEF Ledger!Accept
  <2>3. \A r \in Proposals : Settled(r) => Standing'[r] \in {"accepted", "rolled_back"}
    BY <1>0, <2>2 DEF Settled
  <2>4. Standing'[p] = "accepted"
    BY <1>0, <2>2
  <2>5. \A t \in Targets, r \in Proposals : Shows(View'[t], r) => Shows(View[t], r) \/ r = p
    BY <2>1, AppliedShows
  <2>6. ASSUME NEW r \in Proposals, NEW i \in DOMAIN OnRecord'[r]
        PROVE  \/ OnRecord'[r] = OnRecord[r]
               \/ \E t \in Targets : OnRecord'[r][i].before = View[t]
    <3>1. CASE r # p
      BY <1>0, <2>1, <3>1
    <3>2. CASE r = p
      <4>1. OnRecord'[r] = Recorded(PlanOf(p, e, View))
        BY <1>0, <2>1, <3>2
      <4>2. /\ i \in DOMAIN Changes[p]
            /\ OnRecord'[r][i].before = View[Changes[p][i].target]
        <5> DEFINE s == PlanOf(p, e, View)
        <5>1. DOMAIN s = DOMAIN Changes[p]
              /\ \A j \in DOMAIN s : s[j].before = View[Changes[p][j].target]
          BY DEF PlanOf
        <5> HIDE DEF s
        <5>2. OnRecord'[r] = Recorded(s)
          BY <4>1 DEF s
        <5>3. i \in DOMAIN s /\ OnRecord'[r][i].before = s[i].before
          BY <2>6, <5>2 DEF Recorded
        <5> QED
          BY <5>1, <5>3
      <4>3. Changes[p][i].target \in Targets
        <5> DEFINE C == [target : Targets, op : {"append", "write", "merge"}]
        <5>1. Changes[p] \in Seq(C)
          BY ChangesAssumption
        <5>2. Changes[p][i] \in C
          <6> HIDE DEF C
          <6> QED
            BY <4>2, <5>1
        <5> QED
          BY <5>2
      <4> QED
        BY <4>2, <4>3
    <3> QED
      BY <3>1, <3>2
  <2> QED
    BY <2>3, <2>4, <2>5, <2>6, ApprovedThen
<1> QED
  BY <1>1, <1>2, <1>3, <1>4, <1>5 DEF Simulated, Ledger!Next

LEMMA RestApproved == LedgerInv /\ Approved => OnlyApproved
<1> SUFFICES ASSUME LedgerInv, Approved, \A q \in Procs : pc[q] = "idle",
                    NEW t \in Targets, NEW p \in Proposals, Shows(files[t], p)
             PROVE  Exists("accepted", p)
  BY DEF OnlyApproved, AtRest, Shows
<1>1. \A r \in Proposals : ~Open(r)
  <2>1. \A q \in Procs, r \in Proposals : ~Minds(q, r)
    BY DEF Minds, Finishing, Applying, Moving, Restoring, Recovering
  <2> QED
    BY <2>1 DEF LedgerInv, Minded
<1>2. View[t] = files[t]
  BY <1>1, ViewNow DEF ViewFact, LedgerInv, OfferInv, IndInv
<1> QED
  BY <1>2 DEF Approved, Settled, Standing

(* OnlyApproved, wherever the store implements the ledger.                     *)
LEMMA ApprovedOnly == ASSUME OneReviewer PROVE Spec /\ []Orderly => []OnlyApproved
<1>1. LedgerInv /\ Orderly /\ Approved /\ [Next]_vars => Approved'
  BY LedgerNext, ApprovedNext
<1> QED
  BY <1>1, ApprovedInit, RestApproved, LedgerKept, PTL DEF Spec

(* OnlyApproved for one process that may fail and be killed at every step:     *)
(* when nothing runs, what an asset holds was approved.                        *)
THEOREM ApprovedAlone == ASSUME \A q, r \in Procs : q = r PROVE Spec => []OnlyApproved
<1>1. OneReviewer /\ Orderly
  BY OneProcess
<1>2. Spec => []Orderly
  BY <1>1, PTL
<1> QED
  BY <1>1, <1>2, ApprovedOnly, PTL

(* OnlyApproved for any number of processes, each the only reviewer of its     *)
(* proposals, that fail at any step and are not killed.                        *)
THEOREM ApprovedReviewers ==
  ASSUME OneReviewer, MaxCrashes = 0, Ops \cap {"rollback", "start"} = {}
  PROVE  Spec => []OnlyApproved
  BY ReviewersOrderly, ApprovedOnly, PTL
================================================================================
