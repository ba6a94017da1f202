-------------------------- MODULE ProposalStoreProofs --------------------------
(* TLAPS proofs about ProposalStore, for every set of processes, proposals and *)
(* targets, every assignment of changes and desks and every bound.             *)
EXTENDS ProposalStore, TLAPS

(* What a process's step tells about the values it reads next.                 *)
AtStep(q) ==
  /\ pc[q] \notin {"idle", "down", "recover"} => cur[q] \in Proposals
  /\ pc[q] \in {"lock", "plan", "stage", "journal", "replace", "index", "clean"}
       => goal[q] = "accepted"
  /\ pc[q] = "unlink" => goal[q] \in {"accepted", "rejected"}
  /\ pc[q] = "restore" => goal[q] \in {"accepted", "recovered"}
  /\ pc[q] \in {"undo", "rewrite", "reindex"} => goal[q] = "rolled_back"
  /\ pc[q] \in {"replace", "index", "rewrite", "reindex"} => idx[q] >= 1
  /\ pc[q] \in {"undo", "rewrite", "reindex"} =>
        undo[q] \in Seq(AppliedChange) /\ idx[q] <= Len(undo[q])
  /\ pc[q] = "restore" =>
        undo[q] \in Seq(JournalChange) /\ idx[q] <= Len(undo[q])

IndInv == TypeOK /\ (\A q \in Procs : AtStep(q)) /\ ApplyExclusive

(* A change applied to a content yields a content.                             *)
LEMMA AfterContent ==
  ASSUME NEW op \in {"append", "write", "merge"}, NEW c \in Content,
         NEW item \in Proposals \X Nat \X Nat
  PROVE  After(op, c, item) \in Content
  BY DEF After, Content, Lines

(* Planning the changes of an edition yields planned changes.                  *)
LEMMA PlanType ==
  ASSUME NEW p \in Proposals, NEW e \in Nat, NEW found \in [Targets -> Content]
  PROVE  PlanOf(p, e, found) \in Seq(PlannedChange)
<1> DEFINE Plan(i) == [target |-> Changes[p][i].target,
                       before |-> found[Changes[p][i].target],
                       after  |-> After(Changes[p][i].op,
                                        found[Changes[p][i].target], <<p, e, i>>)]
<1> DEFINE C == [target : Targets, op : {"append", "write", "merge"}]
<1>0. Changes[p] \in Seq(C)
  BY ChangesAssumption
<1>1. /\ Changes[p] \in [1..Len(Changes[p]) -> C]
      /\ DOMAIN Changes[p] = 1..Len(Changes[p]) /\ Len(Changes[p]) \in Nat
  <2> HIDE DEF C
  <2> QED
    BY <1>0
<1>2. ASSUME NEW i \in 1..Len(Changes[p]) PROVE Plan(i) \in PlannedChange
  <2>1. /\ Changes[p][i].target \in Targets
        /\ Changes[p][i].op \in {"append", "write", "merge"}
    BY <1>1
  <2>2. found[Changes[p][i].target] \in Content
    BY <2>1
  <2>3. <<p, e, i>> \in Proposals \X Nat \X Nat
    BY <1>1
  <2>4. After(Changes[p][i].op, found[Changes[p][i].target], <<p, e, i>>) \in Content
    BY <2>1, <2>2, <2>3, AfterContent
  <2> QED
    BY <2>1, <2>2, <2>4 DEF PlannedChange
<1>3. [i \in 1..Len(Changes[p]) |-> Plan(i)] \in Seq(PlannedChange)
  BY <1>1, <1>2
<1> QED
  BY <1>1, <1>3 DEF PlanOf

(* What is recorded of a plan is a sequence of applied changes.                *)
LEMMA RecordedType ==
  ASSUME NEW s \in Seq(PlannedChange)
  PROVE  Recorded(s) \in Seq(AppliedChange)
<1>1. /\ DOMAIN s = 1..Len(s) /\ Len(s) \in Nat
      /\ \A i \in 1..Len(s) : s[i] \in PlannedChange
  OBVIOUS
<1>2. \A i \in 1..Len(s) :
        [target |-> s[i].target, before |-> s[i].before] \in AppliedChange
  BY <1>1 DEF PlannedChange, AppliedChange
<1>3. [i \in 1..Len(s) |-> [target |-> s[i].target, before |-> s[i].before]]
        \in Seq(AppliedChange)
  <2> HIDE DEF AppliedChange
  <2> QED
    BY <1>1, <1>2
<1> QED
  BY <1>1, <1>3 DEF Recorded

(* What is written to a journal from a plan is a transaction.                  *)
LEMMA JournalType ==
  ASSUME NEW s \in Seq(PlannedChange), NEW found \in [Targets -> Content],
         NEW st \in BOOLEAN
  PROVE  [phase |-> "prepared", known |-> TRUE, staged |-> st,
          changes |-> [i \in DOMAIN s |->
             [target |-> s[i].target,
              had    |-> s[i].before # Absent,
              before |-> IF s[i].before = Absent THEN Absent
                         ELSE found[s[i].target]]]] \in Transaction
<1> DEFINE Entry(i) == [target |-> s[i].target,
                        had    |-> s[i].before # Absent,
                        before |-> IF s[i].before = Absent THEN Absent
                                   ELSE found[s[i].target]]
<1>1. /\ DOMAIN s = 1..Len(s) /\ Len(s) \in Nat
      /\ \A i \in 1..Len(s) : s[i] \in PlannedChange
  OBVIOUS
<1>2. ASSUME NEW i \in 1..Len(s) PROVE Entry(i) \in JournalChange
  <2>1. s[i].target \in Targets
    BY <1>1 DEF PlannedChange
  <2>2. found[s[i].target] \in Content /\ Absent \in Content
    BY <2>1 DEF Content
  <2>3. (IF s[i].before = Absent THEN Absent ELSE found[s[i].target]) \in Content
    BY <2>2
  <2>4. (s[i].before # Absent) \in BOOLEAN
    OBVIOUS
  <2> QED
    BY <2>1, <2>3, <2>4 DEF JournalChange
<1>3. [i \in 1..Len(s) |-> Entry(i)] \in Seq(JournalChange)
  <2> HIDE DEF Entry, JournalChange
  <2> QED
    BY <1>1, <1>2
<1>4. "prepared" \in Phases
  BY DEF Phases
<1> QED
  BY <1>1, <1>3, <1>4 DEF Transaction

(* The empty directory, and the journal that CommitFiles may leave.            *)
LEMMA BareType ==
  /\ Bare \in Transaction
  /\ [Bare EXCEPT !.phase = "files_committed", !.staged = FALSE] \in Transaction
  /\ \A t \in Transaction :
        [t EXCEPT !.phase = "files_committed", !.staged = FALSE] \in Transaction
<1>1. <<>> \in Seq(JournalChange)
  OBVIOUS
<1> HIDE DEF JournalChange
<1> QED
  BY <1>1 DEF Bare, Transaction, Phases

(* A journal read back is a sequence of journal changes.                       *)
LEMMA JournalOfType ==
  ASSUME TypeOK, NEW p \in Proposals
  PROVE  JournalOf(p) \in Seq(JournalChange) /\ Len(JournalOf(p)) \in Nat
<1>1. <<>> \in Seq(JournalChange)
  OBVIOUS
<1>2. txn[p] # Absent => txn[p].changes \in Seq(JournalChange)
  BY DEF TypeOK, Transaction
<1>3. JournalOf(p) \in Seq(JournalChange)
  BY <1>1, <1>2 DEF JournalOf
<1> QED
  BY <1>3

THEOREM InitInv == Init => IndInv
<1> SUFFICES ASSUME Init PROVE IndInv
  OBVIOUS
<1>1. NoRec \in Proposal
  BY DEF NoRec, Proposal, Statuses
<1>2. <<>> \in Content /\ Absent \in Content
  BY DEF Content
<1>3. TypeOK
  BY <1>1, <1>2, StoreAssumption DEF Init, TypeOK, Dirs, Statuses, Steps, Goals
<1>4. \A q \in Procs : AtStep(q)
  BY DEF Init, AtStep
<1>5. ApplyExclusive
  BY StoreAssumption DEF Init, ApplyExclusive, InApply
<1> QED
  BY <1>3, <1>4, <1>5 DEF IndInv
(* Each step keeps the types, the step facts and the exclusion.                *)
LEMMA LeaveFacts ==
  ASSUME TypeOK, NEW q \in Procs, NEW to \in {"idle", "down"}, Leave(q, to)
  PROVE  /\ pc' = [pc EXCEPT ![q] = to] /\ pc' \in [Procs -> Steps]
         /\ goal' = [goal EXCEPT ![q] = "none"] /\ goal' \in [Procs -> Goals]
         /\ cur' \in [Procs -> Proposals \cup {Absent}]
         /\ mem' \in [Procs -> Proposal]
         /\ plan' \in [Procs -> Seq(PlannedChange)]
         /\ undo' \in [Procs -> Seq(AppliedChange) \cup Seq(JournalChange)]
         /\ idx' \in [Procs -> Nat] /\ todo' \in [Procs -> SUBSET Proposals]
         /\ AtStep(q)'
         /\ \A r \in Procs \ {q} : AtStep(r) => AtStep(r)'
<1>1. NoRec \in Proposal
  BY DEF NoRec, Proposal, Statuses
<1>2. <<>> \in Seq(PlannedChange) /\ <<>> \in Seq(AppliedChange)
  OBVIOUS
<1>3. /\ pc' = [pc EXCEPT ![q] = to] /\ pc' \in [Procs -> Steps]
      /\ goal' = [goal EXCEPT ![q] = "none"] /\ goal' \in [Procs -> Goals]
      /\ cur' \in [Procs -> Proposals \cup {Absent}]
      /\ mem' \in [Procs -> Proposal]
      /\ plan' \in [Procs -> Seq(PlannedChange)]
      /\ undo' \in [Procs -> Seq(AppliedChange) \cup Seq(JournalChange)]
      /\ idx' \in [Procs -> Nat] /\ todo' \in [Procs -> SUBSET Proposals]
  BY <1>1, <1>2 DEF Leave, TypeOK, Steps, Goals
<1>4. pc'[q] = to
  BY DEF Leave, TypeOK
<1>5. AtStep(q)'
  BY <1>4 DEF AtStep
<1>6. \A r \in Procs \ {q} : AtStep(r) => AtStep(r)'
  BY DEF Leave, TypeOK, AtStep
<1> QED
  BY <1>3, <1>5, <1>6

(* The steps of apply_proposal keep the invariant.                             *)
LEMMA AcquireLockInv ==
  ASSUME IndInv, NEW q \in Procs, AcquireLock(q)
  PROVE  IndInv'
<1>1. TypeOK'
  BY StoreAssumption DEF IndInv, TypeOK, AtStep, AcquireLock, Step, Steps, Goals, disk
<1>2. \A r \in Procs : AtStep(r)'
  BY DEF IndInv, TypeOK, AtStep, AcquireLock, Step, Steps
<1>3. ApplyExclusive'
  BY StoreAssumption
     DEF IndInv, TypeOK, AtStep, ApplyExclusive, InApply, AcquireLock, Step, disk, Steps
<1> QED
  BY <1>1, <1>2, <1>3 DEF IndInv

LEMMA PlanChangesInv ==
  ASSUME IndInv, NEW q \in Procs, PlanChanges(q)
  PROVE  IndInv'
<1>1. TypeOK'
  BY PlanType, MaxEditsAssumption, StoreAssumption DEF IndInv, TypeOK, AtStep, PlanChanges, Step, Steps, Goals, disk, Proposal
<1>2. \A r \in Procs : AtStep(r)'
  BY DEF IndInv, TypeOK, AtStep, PlanChanges, Step, Steps
<1>3. ApplyExclusive'
  BY StoreAssumption
     DEF IndInv, TypeOK, AtStep, ApplyExclusive, InApply, PlanChanges, Step, disk, Steps
<1> QED
  BY <1>1, <1>2, <1>3 DEF IndInv

LEMMA StageChangesInv ==
  ASSUME IndInv, NEW q \in Procs, StageChanges(q)
  PROVE  IndInv'
<1>1. TypeOK'
  BY BareType, StoreAssumption DEF IndInv, TypeOK, AtStep, StageChanges, Step, Steps, Goals, disk
<1>2. \A r \in Procs : AtStep(r)'
  BY DEF IndInv, TypeOK, AtStep, StageChanges, Step, Steps
<1>3. ApplyExclusive'
  BY StoreAssumption
     DEF IndInv, TypeOK, AtStep, ApplyExclusive, InApply, StageChanges, Step, disk, Steps
<1> QED
  BY <1>1, <1>2, <1>3 DEF IndInv

LEMMA WriteJournalInv ==
  ASSUME IndInv, NEW q \in Procs, WriteJournal(q)
  PROVE  IndInv'
<1>1. TypeOK'
  <2>1. plan[q] \in Seq(PlannedChange) /\ files \in [Targets -> Content]
        /\ (txn[cur[q]] # Absent /\ txn[cur[q]].staged) \in BOOLEAN
    BY DEF IndInv, TypeOK
  <2>2. (txn[cur[q]] # Absent) \in BOOLEAN
    OBVIOUS
  <2> DEFINE j == [phase |-> "prepared", known |-> TRUE, staged |-> txn[cur[q]] # Absent,
                   changes |-> [i \in DOMAIN plan[q] |->
                     [target |-> plan[q][i].target,
                      had    |-> plan[q][i].before # Absent,
                      before |-> IF plan[q][i].before = Absent THEN Absent
                                 ELSE files[plan[q][i].target]]]]
  <2>3. j \in Transaction
    BY <2>1, <2>2, JournalType
  <2>4. txn' = [txn EXCEPT ![cur[q]] = j]
    BY DEF WriteJournal
  <2>5. txn' \in [Proposals -> Transaction \cup {Absent}]
    <3> HIDE DEF j
    <3> QED
      BY <2>3, <2>4 DEF IndInv, TypeOK
  <2> QED
    BY <2>5 DEF IndInv, TypeOK, WriteJournal, Step, Steps
<1>2. \A r \in Procs : AtStep(r)'
  BY DEF IndInv, TypeOK, AtStep, WriteJournal, Step, Steps
<1>3. ApplyExclusive'
  BY StoreAssumption
     DEF IndInv, TypeOK, AtStep, ApplyExclusive, InApply, WriteJournal, Step, disk, Steps
<1> QED
  BY <1>1, <1>2, <1>3 DEF IndInv

LEMMA JournalFailsInv ==
  ASSUME IndInv, NEW q \in Procs, JournalFails(q)
  PROVE  IndInv'
<1>1. TypeOK'
  BY StoreAssumption DEF IndInv, TypeOK, AtStep, JournalFails, Step, Steps, Goals, disk
<1>2. \A r \in Procs : AtStep(r)'
  BY DEF IndInv, TypeOK, AtStep, JournalFails, Step, Steps
<1>3. ApplyExclusive'
  BY StoreAssumption
     DEF IndInv, TypeOK, AtStep, ApplyExclusive, InApply, JournalFails, Step, disk, Steps
<1> QED
  BY <1>1, <1>2, <1>3 DEF IndInv

LEMMA CommitFilesInv ==
  ASSUME IndInv, NEW q \in Procs, CommitFiles(q)
  PROVE  IndInv'
<1>1. TypeOK'
  BY BareType, StoreAssumption DEF IndInv, TypeOK, AtStep, CommitFiles, Step, Steps, Goals, disk
<1>2. \A r \in Procs : AtStep(r)'
  BY DEF IndInv, TypeOK, AtStep, CommitFiles, Step, Steps
<1>3. ApplyExclusive'
  BY StoreAssumption
     DEF IndInv, TypeOK, AtStep, ApplyExclusive, InApply, CommitFiles, Step, disk, Steps
<1> QED
  BY <1>1, <1>2, <1>3 DEF IndInv

LEMMA RecordAppliedInv ==
  ASSUME IndInv, NEW q \in Procs, RecordApplied(q)
  PROVE  IndInv'
<1>1. TypeOK'
  <2>1. mem[q] \in Proposal /\ plan[q] \in Seq(PlannedChange)
    BY DEF IndInv, TypeOK
  <2>2. [mem[q] EXCEPT !.applied = Recorded(plan[q])] \in Proposal
    BY <2>1, RecordedType DEF Proposal
  <2>3. mem' \in [Procs -> Proposal]
    BY <2>2 DEF IndInv, TypeOK, RecordApplied
  <2> QED
    BY <2>3 DEF IndInv, TypeOK, RecordApplied, Step, Steps, disk
<1>2. \A r \in Procs : AtStep(r)'
  BY DEF IndInv, TypeOK, AtStep, RecordApplied, Step, Steps
<1>3. ApplyExclusive'
  BY StoreAssumption
     DEF IndInv, TypeOK, AtStep, ApplyExclusive, InApply, RecordApplied, Step, disk, Steps
<1> QED
  BY <1>1, <1>2, <1>3 DEF IndInv

LEMMA MoveUnlinkInv ==
  ASSUME IndInv, NEW q \in Procs, MoveUnlink(q)
  PROVE  IndInv'
<1>1. TypeOK'
  <2>1. /\ pc[q] = "unlink" /\ pc' = [pc EXCEPT ![q] = "drop"]
        /\ cur[q] \in Proposals /\ goal[q] \in Statuses /\ mem[q] \in Proposal
    BY DEF IndInv, TypeOK, AtStep, MoveUnlink, Step, Statuses
  <2>2. [mem[q] EXCEPT !.status = goal[q]] \in Proposal
    BY <2>1 DEF Proposal
  <2>3. mem' \in [Procs -> Proposal]
    BY <2>2 DEF IndInv, TypeOK, MoveUnlink
  <2>4. Dir(mem[q].status) \in Dirs
    BY DEF Dir, Dirs
  <2>5. box' \in [Dirs -> [Proposals -> Proposal \cup {Absent}]]
    BY <2>4 DEF IndInv, TypeOK, MoveUnlink
  <2>6. pc' \in [Procs -> Steps]
    BY <2>1 DEF IndInv, TypeOK, Steps
  <2> QED
    BY <2>3, <2>5, <2>6 DEF IndInv, TypeOK, MoveUnlink
<1>2. \A r \in Procs : AtStep(r)'
  BY DEF IndInv, TypeOK, AtStep, MoveUnlink, Step, Steps
<1>3. ApplyExclusive'
  BY StoreAssumption
     DEF IndInv, TypeOK, AtStep, ApplyExclusive, InApply, MoveUnlink, Step, disk, Steps
<1> QED
  BY <1>1, <1>2, <1>3 DEF IndInv

LEMMA MoveDropRowInv ==
  ASSUME IndInv, NEW q \in Procs, MoveDropRow(q)
  PROVE  IndInv'
<1>1. TypeOK'
  BY StoreAssumption DEF IndInv, TypeOK, AtStep, MoveDropRow, Step, Steps, Goals, disk
<1>2. \A r \in Procs : AtStep(r)'
  BY DEF IndInv, TypeOK, AtStep, MoveDropRow, Step, Steps
<1>3. ApplyExclusive'
  BY StoreAssumption
     DEF IndInv, TypeOK, AtStep, ApplyExclusive, InApply, MoveDropRow, Step, disk, Steps
<1> QED
  BY <1>1, <1>2, <1>3 DEF IndInv

LEMMA WriteProposalInv ==
  ASSUME IndInv, NEW q \in Procs, WriteProposal(q)
  PROVE  IndInv'
<1>1. TypeOK'
  BY StoreAssumption DEF IndInv, TypeOK, AtStep, WriteProposal, Step, Steps, Goals, disk, Dir, Dirs
<1>2. \A r \in Procs : AtStep(r)'
  BY DEF IndInv, TypeOK, AtStep, WriteProposal, Step, Steps
<1>3. ApplyExclusive'
  BY StoreAssumption
     DEF IndInv, TypeOK, AtStep, ApplyExclusive, InApply, WriteProposal, Step, disk, Steps
<1> QED
  BY <1>1, <1>2, <1>3 DEF IndInv

LEMMA UndoIndexInv ==
  ASSUME IndInv, NEW q \in Procs, UndoIndex(q)
  PROVE  IndInv'
<1>1. TypeOK'
  <2>1. undo[q] \in Seq(AppliedChange) /\ idx[q] \in 1..Len(undo[q])
    BY DEF IndInv, TypeOK, AtStep, UndoIndex, Step
  <2>2. undo[q][idx[q]] \in AppliedChange
    <3> HIDE DEF AppliedChange
    <3> QED BY <2>1
  <2>3. undo[q][idx[q]].target \in Targets
    BY <2>2 DEF AppliedChange
  <2>4. indexed' \in [Targets -> Content]
    BY <2>3 DEF IndInv, TypeOK, UndoIndex
  <2>5. idx' \in [Procs -> Nat]
    BY <2>1 DEF IndInv, TypeOK, UndoIndex
  <2> QED
    BY <2>4, <2>5 DEF IndInv, TypeOK, UndoIndex, Step, Steps
<1>2. \A r \in Procs : AtStep(r)'
  BY DEF IndInv, TypeOK, AtStep, UndoIndex, Step, Steps
<1>3. ApplyExclusive'
  BY StoreAssumption
     DEF IndInv, TypeOK, AtStep, ApplyExclusive, InApply, UndoIndex, Step, disk, Steps
<1> QED
  BY <1>1, <1>2, <1>3 DEF IndInv

LEMMA RestoreDoneInv ==
  ASSUME IndInv, NEW q \in Procs, RestoreDone(q)
  PROVE  IndInv'
<1>1. TypeOK'
  BY StoreAssumption DEF IndInv, TypeOK, AtStep, RestoreDone, Step, Steps, Goals, disk
<1>2. \A r \in Procs : AtStep(r)'
  BY DEF IndInv, TypeOK, AtStep, RestoreDone, Step, Steps
<1>3. ApplyExclusive'
  BY StoreAssumption
     DEF IndInv, TypeOK, AtStep, ApplyExclusive, InApply, RestoreDone, Step, disk, Steps
<1> QED
  BY <1>1, <1>2, <1>3 DEF IndInv

LEMMA StartInv ==
  ASSUME IndInv, NEW q \in Procs, Start(q)
  PROVE  IndInv'
<1>1. TypeOK'
  BY StoreAssumption DEF IndInv, TypeOK, AtStep, Start, Step, Steps, Goals, disk
<1>2. \A r \in Procs : AtStep(r)'
  BY DEF IndInv, TypeOK, AtStep, Start, Step, Steps
<1>3. ApplyExclusive'
  BY StoreAssumption
     DEF IndInv, TypeOK, AtStep, ApplyExclusive, InApply, Start, Step, disk, Steps
<1> QED
  BY <1>1, <1>2, <1>3 DEF IndInv

LEMMA DiscardCommittedInv ==
  ASSUME IndInv, NEW q \in Procs, DiscardCommitted(q)
  PROVE  IndInv'
<1>1. TypeOK'
  BY StoreAssumption DEF IndInv, TypeOK, AtStep, DiscardCommitted, Step, Steps, Goals, disk
<1>2. \A r \in Procs : AtStep(r)'
  BY DEF IndInv, TypeOK, AtStep, DiscardCommitted, Step, Steps
<1>3. ApplyExclusive'
  BY StoreAssumption
     DEF IndInv, TypeOK, AtStep, ApplyExclusive, InApply, DiscardCommitted, Step, disk, Steps
<1> QED
  BY <1>1, <1>2, <1>3 DEF IndInv

LEMMA ReplaceTargetInv ==
  ASSUME IndInv, NEW q \in Procs, ReplaceTarget(q)
  PROVE  IndInv'
<1>1. TypeOK'
  <2>1. plan[q] \in Seq(PlannedChange) /\ idx[q] \in 1..Len(plan[q])
    BY DEF IndInv, TypeOK, AtStep, ReplaceTarget
  <2>2. plan[q][idx[q]] \in PlannedChange
    <3> HIDE DEF PlannedChange
    <3> QED BY <2>1
  <2>3. plan[q][idx[q]].target \in Targets /\ plan[q][idx[q]].after \in Content
    BY <2>2 DEF PlannedChange
  <2> QED
    BY <2>3 DEF IndInv, TypeOK, ReplaceTarget
<1>2. \A r \in Procs : AtStep(r)'
  BY DEF IndInv, TypeOK, AtStep, ReplaceTarget, Step, Steps
<1>3. ApplyExclusive'
  BY StoreAssumption
     DEF IndInv, TypeOK, AtStep, ApplyExclusive, InApply, ReplaceTarget, Step, disk, Steps
<1> QED
  BY <1>1, <1>2, <1>3 DEF IndInv

LEMMA IndexTargetInv ==
  ASSUME IndInv, NEW q \in Procs, IndexTarget(q)
  PROVE  IndInv'
<1>1. TypeOK'
  <2>1. plan[q] \in Seq(PlannedChange) /\ idx[q] \in 1..Len(plan[q])
    BY DEF IndInv, TypeOK, AtStep, IndexTarget
  <2>2. plan[q][idx[q]] \in PlannedChange
    <3> HIDE DEF PlannedChange
    <3> QED BY <2>1
  <2>3. plan[q][idx[q]].target \in Targets /\ plan[q][idx[q]].after \in Content
    BY <2>2 DEF PlannedChange
  <2> QED
    BY <2>3 DEF IndInv, TypeOK, IndexTarget
<1>2. \A r \in Procs : AtStep(r)'
  BY DEF IndInv, TypeOK, AtStep, IndexTarget, Step, Steps
<1>3. ApplyExclusive'
  BY StoreAssumption
     DEF IndInv, TypeOK, AtStep, ApplyExclusive, InApply, IndexTarget, Step, disk, Steps
<1> QED
  BY <1>1, <1>2, <1>3 DEF IndInv

LEMMA TruncateInv ==
  ASSUME IndInv, NEW q \in Procs, Truncate(q)
  PROVE  IndInv'
<1>1. TypeOK'
  <2>1. undo[q] \in Seq(AppliedChange) /\ idx[q] \in 1..Len(undo[q])
    BY DEF IndInv, TypeOK, AtStep, Truncate, Step
  <2>2. undo[q][idx[q]] \in AppliedChange
    <3> HIDE DEF AppliedChange
    <3> QED BY <2>1
  <2>3. undo[q][idx[q]].target \in Targets /\ <<>> \in Content
    BY <2>2 DEF AppliedChange, Content
  <2> QED
    BY <2>3 DEF IndInv, TypeOK, Truncate, Step, Steps
<1>2. \A r \in Procs : AtStep(r)'
  BY DEF IndInv, TypeOK, AtStep, Truncate, Step, Steps
<1>3. ApplyExclusive'
  BY StoreAssumption
     DEF IndInv, TypeOK, AtStep, ApplyExclusive, InApply, Truncate, Step, disk, Steps
<1> QED
  BY <1>1, <1>2, <1>3 DEF IndInv

LEMMA UndoTargetInv ==
  ASSUME IndInv, NEW q \in Procs, UndoTarget(q)
  PROVE  IndInv'
<1>1. TypeOK'
  <2>1. undo[q] \in Seq(AppliedChange) /\ idx[q] \in 1..Len(undo[q])
    BY DEF IndInv, TypeOK, AtStep, UndoTarget, Step
  <2>2. undo[q][idx[q]] \in AppliedChange
    <3> HIDE DEF AppliedChange
    <3> QED BY <2>1
  <2>3. undo[q][idx[q]].target \in Targets /\ undo[q][idx[q]].before \in Content
    BY <2>2 DEF AppliedChange
  <2> QED
    BY <2>3 DEF IndInv, TypeOK, UndoTarget, Step, Steps
<1>2. \A r \in Procs : AtStep(r)'
  BY DEF IndInv, TypeOK, AtStep, UndoTarget, Step, Steps
<1>3. ApplyExclusive'
  BY StoreAssumption
     DEF IndInv, TypeOK, AtStep, ApplyExclusive, InApply, UndoTarget, Step, disk, Steps
<1> QED
  BY <1>1, <1>2, <1>3 DEF IndInv

LEMMA MarkRolledBackInv ==
  ASSUME IndInv, NEW q \in Procs, MarkRolledBack(q)
  PROVE  IndInv'
<1>1. TypeOK'
  <2>1. mem'[q] \in Proposal /\ mem' \in [Procs -> Proposal]
    BY DEF IndInv, TypeOK, MarkRolledBack, Step, Proposal, Statuses
  <2>2. cur[q] \in Proposals
    BY DEF IndInv, AtStep, MarkRolledBack, Step
  <2>3. box' \in [Dirs -> [Proposals -> Proposal \cup {Absent}]]
    BY <2>1, <2>2 DEF IndInv, TypeOK, MarkRolledBack, Dirs
  <2> QED
    BY <2>1, <2>3 DEF IndInv, TypeOK, MarkRolledBack, Step, Steps
<1>2. \A r \in Procs : AtStep(r)'
  BY DEF IndInv, TypeOK, AtStep, MarkRolledBack, Step, Steps
<1>3. ApplyExclusive'
  <2>1. pc[q] = "undo" /\ pc' = [pc EXCEPT ![q] = "row"]
    BY DEF MarkRolledBack, Step
  <2>2. ~InApply(q) /\ lock # q
    BY <2>1 DEF IndInv, ApplyExclusive, InApply
  <2>3. goal[q] # "accepted"
    BY <2>1 DEF IndInv, AtStep
  <2> QED
    BY <2>1, <2>2, <2>3 DEF IndInv, TypeOK, ApplyExclusive, InApply, MarkRolledBack, disk
<1> QED
  BY <1>1, <1>2, <1>3 DEF IndInv

LEMMA BeginRestoreFacts ==
  ASSUME TypeOK, NEW q \in Procs, NEW p \in Proposals,
         NEW to \in {"accepted", "recovered"}, BeginRestore(q, p, to)
  PROVE  /\ pc' = [pc EXCEPT ![q] = "restore"] /\ pc' \in [Procs -> Steps]
         /\ goal' = [goal EXCEPT ![q] = to] /\ goal' \in [Procs -> Goals]
         /\ cur' \in [Procs -> Proposals \cup {Absent}]
         /\ undo' \in [Procs -> Seq(AppliedChange) \cup Seq(JournalChange)]
         /\ idx' \in [Procs -> Nat]
         /\ AtStep(q)'
         /\ \A r \in Procs \ {q} : AtStep(r) => AtStep(r)'
<1>1. JournalOf(p) \in Seq(JournalChange) /\ Len(JournalOf(p)) \in Nat
  BY JournalOfType
<1>2. /\ pc' = [pc EXCEPT ![q] = "restore"] /\ pc' \in [Procs -> Steps]
      /\ goal' = [goal EXCEPT ![q] = to] /\ goal' \in [Procs -> Goals]
      /\ cur' \in [Procs -> Proposals \cup {Absent}]
      /\ undo' \in [Procs -> Seq(AppliedChange) \cup Seq(JournalChange)]
      /\ idx' \in [Procs -> Nat]
  BY <1>1 DEF BeginRestore, TypeOK, Steps, Goals
<1>3. /\ pc'[q] = "restore" /\ goal'[q] = to /\ cur'[q] = p
      /\ undo'[q] = JournalOf(p) /\ idx'[q] = Len(JournalOf(p))
  BY DEF BeginRestore, TypeOK
<1>4. AtStep(q)'
  BY <1>1, <1>3 DEF AtStep
<1>5. \A r \in Procs \ {q} : AtStep(r) => AtStep(r)'
  BY DEF BeginRestore, TypeOK, AtStep
<1> QED
  BY <1>2, <1>4, <1>5

(* A step after which the process has left: what it took with it is gone.      *)
LEMMA LockTimeoutInv ==
  ASSUME IndInv, NEW q \in Procs, LockTimeout(q)
  PROVE  IndInv'
<1>1. TypeOK'
  BY LeaveFacts, StoreAssumption DEF IndInv, TypeOK, LockTimeout, Release, disk
<1>2. \A r \in Procs : AtStep(r)'
  BY LeaveFacts DEF IndInv, LockTimeout
<1>3. ApplyExclusive'
  <2>1. pc[q] = "lock" /\ Leave(q, "idle") /\ lock' = lock
    BY DEF LockTimeout
  <2>2. ~InApply(q) /\ lock # q
    BY <2>1 DEF IndInv, ApplyExclusive, InApply
  <2>3. /\ pc' = [pc EXCEPT ![q] = "idle"]
        /\ goal' = [goal EXCEPT ![q] = "none"]
    BY <2>1 DEF Leave
  <2> QED
    BY <2>1, <2>2, <2>3 DEF IndInv, TypeOK, ApplyExclusive, InApply
<1> QED
  BY <1>1, <1>2, <1>3 DEF IndInv

LEMMA CleanUpInv ==
  ASSUME IndInv, NEW q \in Procs, CleanUp(q)
  PROVE  IndInv'
<1>1. TypeOK'
  BY LeaveFacts, StoreAssumption DEF IndInv, TypeOK, CleanUp, Release, disk
<1>2. \A r \in Procs : AtStep(r)'
  BY LeaveFacts DEF IndInv, CleanUp
<1>3. ApplyExclusive'
  BY LeaveFacts, StoreAssumption
     DEF IndInv, TypeOK, ApplyExclusive, InApply, CleanUp, Release, disk
<1> QED
  BY <1>1, <1>2, <1>3 DEF IndInv

LEMMA RaiseOutInv ==
  ASSUME IndInv, NEW q \in Procs, RaiseOut(q)
  PROVE  IndInv'
<1>1. TypeOK'
  BY LeaveFacts, StoreAssumption DEF IndInv, TypeOK, RaiseOut, Release, disk
<1>2. \A r \in Procs : AtStep(r)'
  BY LeaveFacts DEF IndInv, RaiseOut
<1>3. ApplyExclusive'
  BY LeaveFacts, StoreAssumption
     DEF IndInv, TypeOK, ApplyExclusive, InApply, RaiseOut, Release, disk
<1> QED
  BY <1>1, <1>2, <1>3 DEF IndInv

LEMMA RecoveryDoneInv ==
  ASSUME IndInv, NEW q \in Procs, RecoveryDone(q)
  PROVE  IndInv'
<1>1. TypeOK'
  BY LeaveFacts, StoreAssumption DEF IndInv, TypeOK, RecoveryDone, Release, disk
<1>2. \A r \in Procs : AtStep(r)'
  BY LeaveFacts DEF IndInv, RecoveryDone
<1>3. ApplyExclusive'
  <2>1. pc[q] = "recover" /\ Leave(q, "idle") /\ lock' = lock
    BY DEF RecoveryDone
  <2>2. ~InApply(q) /\ lock # q
    BY <2>1 DEF IndInv, ApplyExclusive, InApply
  <2>3. /\ pc' = [pc EXCEPT ![q] = "idle"]
        /\ goal' = [goal EXCEPT ![q] = "none"]
    BY <2>1 DEF Leave
  <2> QED
    BY <2>1, <2>2, <2>3 DEF IndInv, TypeOK, ApplyExclusive, InApply
<1> QED
  BY <1>1, <1>2, <1>3 DEF IndInv

LEMMA CrashInv ==
  ASSUME IndInv, NEW q \in Procs, Crash(q)
  PROVE  IndInv'
<1>1. TypeOK'
  BY LeaveFacts, StoreAssumption DEF IndInv, TypeOK, Crash, Release, disk
<1>2. \A r \in Procs : AtStep(r)'
  BY LeaveFacts DEF IndInv, Crash
<1>3. ApplyExclusive'
  BY LeaveFacts, StoreAssumption
     DEF IndInv, TypeOK, ApplyExclusive, InApply, Crash, Release, disk
<1> QED
  BY <1>1, <1>2, <1>3 DEF IndInv

LEMMA IndexProposalInv ==
  ASSUME IndInv, NEW q \in Procs, IndexProposal(q)
  PROVE  IndInv'
<1>0. /\ rows' \in [Proposals -> Statuses \cup {Absent}]
      /\ UNCHANGED <<files, indexed, box, txn, lock, spent>>
  BY DEF IndInv, TypeOK, IndexProposal, Proposal
<1>1. CASE goal[q] = "accepted"
  <2>1. /\ pc[q] = "row" /\ pc' = [pc EXCEPT ![q] = "clean"]
        /\ UNCHANGED <<goal, cur, mem, plan, undo, idx, todo>>
    BY <1>1 DEF IndexProposal
  <2>2. TypeOK'
    BY <1>0, <2>1 DEF IndInv, TypeOK, Steps
  <2>3. \A r \in Procs : AtStep(r)'
    BY <1>0, <1>1, <2>1 DEF IndInv, TypeOK, AtStep
  <2>4. ApplyExclusive'
    BY <1>0, <1>1, <2>1 DEF IndInv, TypeOK, ApplyExclusive, InApply
  <2> QED
    BY <2>2, <2>3, <2>4 DEF IndInv
<1>2. CASE goal[q] # "accepted"
  <2>1. Leave(q, "idle") /\ pc[q] = "row"
    BY <1>2 DEF IndexProposal
  <2>2. TypeOK'
    BY <1>0, <2>1, LeaveFacts DEF IndInv, TypeOK
  <2>3. \A r \in Procs : AtStep(r)'
    BY <2>1, LeaveFacts DEF IndInv
  <2>4. ApplyExclusive'
    BY <1>0, <1>2, <2>1, LeaveFacts DEF IndInv, TypeOK, ApplyExclusive, InApply
  <2> QED
    BY <2>2, <2>3, <2>4 DEF IndInv
<1> QED
  BY <1>1, <1>2

LEMMA ReplaceFailsInv ==
  ASSUME IndInv, NEW q \in Procs, ReplaceFails(q)
  PROVE  IndInv'
<1>0. cur[q] \in Proposals /\ pc[q] = "replace" /\ goal[q] = "accepted"
      /\ BeginRestore(q, cur[q], "accepted")
  BY DEF IndInv, AtStep, ReplaceFails
<1>1. TypeOK'
  BY <1>0, BeginRestoreFacts DEF IndInv, TypeOK, ReplaceFails, disk
<1>2. \A r \in Procs : AtStep(r)'
  BY <1>0, BeginRestoreFacts DEF IndInv
<1>3. ApplyExclusive'
  BY <1>0, BeginRestoreFacts
     DEF IndInv, TypeOK, ApplyExclusive, InApply, ReplaceFails, disk
<1> QED
  BY <1>1, <1>2, <1>3 DEF IndInv

LEMMA RestoreInterruptedInv ==
  ASSUME IndInv, NEW q \in Procs, RestoreInterrupted(q)
  PROVE  IndInv'
<1>0. PICK p \in Proposals : /\ pc[q] = "recover"
                             /\ BeginRestore(q, p, "recovered")
                             /\ todo' = [todo EXCEPT ![q] = @ \ {p}]
                             /\ UNCHANGED <<disk, lock, mem, plan, spent>>
  BY DEF IndInv, TypeOK, RestoreInterrupted
<1>1. TypeOK'
  BY <1>0, BeginRestoreFacts DEF IndInv, TypeOK, disk
<1>2. \A r \in Procs : AtStep(r)'
  BY <1>0, BeginRestoreFacts DEF IndInv
<1>3. ApplyExclusive'
  <2>1. ~InApply(q) /\ lock # q
    BY <1>0 DEF IndInv, ApplyExclusive, InApply
  <2>2. /\ pc' = [pc EXCEPT ![q] = "restore"]
        /\ goal' = [goal EXCEPT ![q] = "recovered"] /\ lock' = lock
    BY <1>0 DEF BeginRestore
  <2> QED
    BY <2>1, <2>2 DEF IndInv, TypeOK, ApplyExclusive, InApply
<1> QED
  BY <1>1, <1>2, <1>3 DEF IndInv

LEMMA RestoreTargetInv ==
  ASSUME IndInv, NEW q \in Procs, RestoreTarget(q)
  PROVE  IndInv'
<1>1. TypeOK'
  <2>a. undo[q] \in Seq(JournalChange) /\ idx[q] <= Len(undo[q])
        /\ cur[q] \in Proposals /\ idx[q] > 0
    BY DEF IndInv, AtStep, RestoreTarget
  <2>b. idx[q] \in Nat
    BY DEF IndInv, TypeOK
  <2>1. undo[q] \in Seq(JournalChange) /\ idx[q] \in 1..Len(undo[q])
        /\ cur[q] \in Proposals
    <3> HIDE DEF JournalChange
    <3> QED BY <2>a, <2>b
  <2>2. undo[q][idx[q]] \in JournalChange
    <3> HIDE DEF JournalChange
    <3> QED BY <2>1
  <2>3. undo[q][idx[q]].target \in Targets
    BY <2>2 DEF JournalChange
  <2>4. JournalOf(cur[q]) \in Seq(JournalChange)
    BY <2>1, JournalOfType DEF IndInv
  <2>5. idx[q] \in DOMAIN JournalOf(cur[q]) =>
           JournalOf(cur[q])[idx[q]] \in JournalChange
    <3> HIDE DEF JournalChange
    <3> QED BY <2>4
  <2>6. idx[q] \in DOMAIN JournalOf(cur[q]) =>
           JournalOf(cur[q])[idx[q]].before \in Content
    BY <2>5 DEF JournalChange
  <2>7. Absent \in Content
    BY DEF Content
  <2>8. files' \in [Targets -> Content]
    BY <2>3, <2>6, <2>7 DEF IndInv, TypeOK, RestoreTarget
  <2>9. idx' \in [Procs -> Nat]
    BY <2>1 DEF IndInv, TypeOK, RestoreTarget
  <2> QED
    BY <2>8, <2>9 DEF IndInv, TypeOK, RestoreTarget
<1>2. \A r \in Procs : AtStep(r)'
  <2>1. /\ idx' = [idx EXCEPT ![q] = @ - 1] /\ pc[q] = "restore"
        /\ UNCHANGED <<pc, goal, cur, undo>>
    BY DEF RestoreTarget
  <2>2. idx'[q] <= idx[q] /\ \A r \in Procs \ {q} : idx'[r] = idx[r]
    BY <2>1 DEF IndInv, TypeOK
  <2>3. undo[q] \in Seq(JournalChange) /\ idx[q] <= Len(undo[q])
    BY <2>1 DEF IndInv, AtStep
  <2>4. idx'[q] <= Len(undo[q])
    <3> HIDE DEF JournalChange
    <3>1. Len(undo[q]) \in Nat
      BY <2>3
    <3>2. idx[q] \in Nat /\ idx'[q] \in Nat
      BY <1>1 DEF IndInv, TypeOK
    <3> QED
      BY <2>2, <2>3, <3>1, <3>2
  <2>5. AtStep(q)'
    BY <2>1, <2>3, <2>4 DEF IndInv, AtStep
  <2>6. ASSUME NEW r \in Procs \ {q} PROVE AtStep(r)'
    BY <2>1, <2>2 DEF IndInv, AtStep
  <2> QED
    BY <2>5, <2>6
<1>3. ApplyExclusive'
  BY DEF IndInv, TypeOK, ApplyExclusive, InApply, RestoreTarget
<1> QED
  BY <1>1, <1>2, <1>3 DEF IndInv

(* A request that loads a proposal: from "idle" to a step outside the flock.   *)
LEMMA LoadFacts ==
  ASSUME IndInv, NEW q \in Procs, NEW op, NEW p \in Proposals,
         NEW rec \in Proposal,
         NEW to \in {"accepted", "rejected", "saved", "rolled_back"},
         NEW next \in {"lock", "unlink", "write", "undo"},
         next = "lock" <=> to = "accepted",
         next = "unlink" => to = "rejected", next = "undo" => to = "rolled_back",
         undo' \in [Procs -> Seq(AppliedChange) \cup Seq(JournalChange)],
         idx' \in [Procs -> Nat],
         \A r \in Procs \ {q} : undo'[r] = undo[r] /\ idx'[r] = idx[r],
         next = "undo" => undo'[q] \in Seq(AppliedChange) /\ idx'[q] <= Len(undo'[q]),
         Load(q, op, p, rec, to, next)
  PROVE  IndInv'
<1>1. /\ pc[q] = "idle" /\ pc' = [pc EXCEPT ![q] = next]
      /\ goal' = [goal EXCEPT ![q] = to] /\ cur' = [cur EXCEPT ![q] = p]
      /\ mem' = [mem EXCEPT ![q] = rec]
      /\ UNCHANGED <<files, indexed, box, rows, txn, lock, plan, todo>>
  BY DEF Load, disk
<1>2. TypeOK'
  BY <1>1 DEF IndInv, TypeOK, Steps, Goals
<1>3. AtStep(q)'
  BY <1>1 DEF IndInv, TypeOK, AtStep
<1>4. ASSUME NEW r \in Procs \ {q} PROVE AtStep(r)'
  <2>1. /\ pc'[r] = pc[r] /\ goal'[r] = goal[r] /\ cur'[r] = cur[r]
        /\ undo'[r] = undo[r] /\ idx'[r] = idx[r]
    BY <1>1 DEF IndInv, TypeOK
  <2> QED
    BY <2>1 DEF IndInv, AtStep
<1>5. ApplyExclusive'
  <2>1. ~InApply(q) /\ lock # q
    BY <1>1 DEF IndInv, ApplyExclusive, InApply
  <2>2. ~InApply(q)'
    BY <1>1 DEF IndInv, TypeOK, InApply
  <2>3. \A r \in Procs \ {q} : InApply(r)' <=> InApply(r)
    BY <1>1 DEF IndInv, TypeOK, InApply
  <2> QED
    BY <1>1, <2>1, <2>2, <2>3 DEF IndInv, ApplyExclusive
<1> QED
  BY <1>2, <1>3, <1>4, <1>5 DEF IndInv

LEMMA LoadOpInv ==
  ASSUME IndInv, NEW q \in Procs, LoadOp(q)
  PROVE  IndInv'
<1>0. /\ undo \in [Procs -> Seq(AppliedChange) \cup Seq(JournalChange)]
      /\ idx \in [Procs -> Nat]
  BY DEF IndInv, TypeOK
<1>a. ASSUME NEW d \in Dirs, NEW p \in Proposals, Exists(d, p)
      PROVE  box[d][p] \in Proposal
  BY <1>a DEF IndInv, TypeOK, Exists
<1>b. "pending" \in Dirs /\ "accepted" \in Dirs
  BY DEF Dirs
<1>1. CASE LoadAccept(q)
  <2>1. PICK p \in Proposals :
          /\ Found(p, "pending", Inbox)
          /\ Load(q, "accept", p, box["pending"][p], "accepted", "lock")
          /\ UNCHANGED <<undo, idx>>
    BY <1>1 DEF LoadAccept
  <2>2. box["pending"][p] \in Proposal
    BY <1>a, <1>b, <2>1 DEF Found
  <2> QED
    BY <1>0, <2>1, <2>2, LoadFacts
<1>2. CASE LoadReject(q)
  <2>1. PICK p \in Proposals :
          /\ Found(p, "pending", Inbox)
          /\ Load(q, "reject", p, box["pending"][p], "rejected", "unlink")
          /\ UNCHANGED <<undo, idx>>
    BY <1>2 DEF LoadReject
  <2>2. box["pending"][p] \in Proposal
    BY <1>a, <1>b, <2>1 DEF Found
  <2> QED
    BY <1>0, <2>1, <2>2, LoadFacts
<1>3. CASE LoadEdit(q)
  <2>1. PICK p \in Proposals :
          /\ Found(p, "pending", Inbox)
          /\ Load(q, "edit", p, [box["pending"][p] EXCEPT !.ed = @ + 1],
                  "saved", "write")
          /\ UNCHANGED <<undo, idx>>
    BY <1>3 DEF LoadEdit
  <2>2. box["pending"][p] \in Proposal
    BY <1>a, <1>b, <2>1 DEF Found
  <2>3. [box["pending"][p] EXCEPT !.ed = @ + 1] \in Proposal
    BY <2>2 DEF Proposal
  <2> QED
    BY <1>0, <2>1, <2>3, LoadFacts
<1>4. CASE LoadFeedback(q)
  <2>1. PICK p \in Proposals, d \in Dirs :
          /\ Exists(d, p)
          /\ Load(q, "feedback", p, box[d][p], "saved", "write")
          /\ UNCHANGED <<undo, idx>>
    BY <1>4 DEF LoadFeedback
  <2>2. box[d][p] \in Proposal
    BY <1>a, <2>1
  <2> QED
    BY <1>0, <2>1, <2>2, LoadFacts
<1>5. CASE LoadRollback(q)
  <2>1. PICK p \in Proposals :
          /\ Found(p, "accepted", {"accepted"})
          /\ Load(q, "rollback", p, box["accepted"][p], "rolled_back", "undo")
          /\ undo' = [undo EXCEPT ![q] = box["accepted"][p].applied]
          /\ idx' = [idx EXCEPT ![q] = Len(box["accepted"][p].applied)]
    BY <1>5 DEF LoadRollback
  <2>2. box["accepted"][p] \in Proposal
    BY <1>a, <1>b, <2>1 DEF Found
  <2>3. /\ box["accepted"][p].applied \in Seq(AppliedChange)
        /\ Len(box["accepted"][p].applied) \in Nat
    <3>1. box["accepted"][p].applied \in Seq(AppliedChange)
      BY <2>2 DEF Proposal
    <3> HIDE DEF AppliedChange
    <3> QED
      BY <3>1
  <2>4. /\ undo' \in [Procs -> Seq(AppliedChange) \cup Seq(JournalChange)]
        /\ idx' \in [Procs -> Nat]
        /\ \A r \in Procs \ {q} : undo'[r] = undo[r] /\ idx'[r] = idx[r]
        /\ undo'[q] \in Seq(AppliedChange) /\ idx'[q] <= Len(undo'[q])
    BY <1>0, <2>1, <2>3
  <2> QED
    BY <2>1, <2>2, <2>4, LoadFacts
<1> QED
  BY <1>1, <1>2, <1>3, <1>4, <1>5 DEF LoadOp

(* A step that raises: out of the flock, into the restore, or out of the call. *)
LEMMA FaultInv ==
  ASSUME IndInv, NEW q \in Procs, Fault(q)
  PROVE  IndInv'
<1>0. UNCHANGED <<files, indexed, box, rows, txn, lock>>
  BY DEF Fault, disk
<1>1. CASE /\ pc[q] \in {"plan", "stage", "journal", "index", "unlink", "drop",
                        "write", "row", "clean"}
           /\ InApply(q) /\ pc' = [pc EXCEPT ![q] = "release"]
           /\ UNCHANGED <<goal, cur, mem, plan, undo, idx, todo>>
  <2>1. TypeOK'
    BY <1>0, <1>1 DEF IndInv, TypeOK, Steps
  <2>2. \A r \in Procs : AtStep(r)'
    BY <1>0, <1>1 DEF IndInv, TypeOK, AtStep
  <2>3. ApplyExclusive'
    <3>1. InApply(q)' /\ \A r \in Procs \ {q} : InApply(r)' <=> InApply(r)
      BY <1>1 DEF IndInv, TypeOK, InApply
    <3> QED
      BY <1>0, <1>1, <3>1 DEF IndInv, ApplyExclusive
  <2> QED
    BY <2>1, <2>2, <2>3 DEF IndInv
<1>2. CASE /\ pc[q] \in {"replace", "index", "unlink", "drop", "write", "row"}
           /\ goal[q] = "accepted" /\ BeginRestore(q, cur[q], "accepted")
           /\ UNCHANGED <<mem, plan, todo>>
  <2>0. cur[q] \in Proposals
    BY <1>2 DEF IndInv, AtStep
  <2>1. TypeOK'
    BY <1>0, <1>2, <2>0, BeginRestoreFacts DEF IndInv, TypeOK
  <2>2. \A r \in Procs : AtStep(r)'
    BY <1>2, <2>0, BeginRestoreFacts DEF IndInv
  <2>3. ApplyExclusive'
    <3>1. /\ pc' = [pc EXCEPT ![q] = "restore"]
          /\ goal' = [goal EXCEPT ![q] = "accepted"]
      BY <1>2 DEF BeginRestore
    <3>2. InApply(q) /\ InApply(q)'
      BY <1>2, <3>1 DEF IndInv, TypeOK, InApply
    <3>3. \A r \in Procs \ {q} : InApply(r)' <=> InApply(r)
      BY <3>1 DEF IndInv, TypeOK, InApply
    <3> QED
      BY <1>0, <3>2, <3>3 DEF IndInv, ApplyExclusive
  <2> QED
    BY <2>1, <2>2, <2>3 DEF IndInv
<1>3. CASE /\ pc[q] \in {"unlink", "drop", "write", "row", "undo", "rewrite", "reindex"}
           /\ goal[q] # "accepted" /\ Leave(q, "idle")
  <2>1. TypeOK'
    BY <1>0, <1>3, LeaveFacts DEF IndInv, TypeOK
  <2>2. \A r \in Procs : AtStep(r)'
    BY <1>3, LeaveFacts DEF IndInv
  <2>3. ApplyExclusive'
    <3>1. ~InApply(q) /\ lock # q
      BY <1>3 DEF IndInv, ApplyExclusive, InApply
    <3>2. /\ pc' = [pc EXCEPT ![q] = "idle"]
          /\ goal' = [goal EXCEPT ![q] = "none"]
      BY <1>3 DEF Leave
    <3> QED
      BY <1>0, <3>1, <3>2 DEF IndInv, TypeOK, ApplyExclusive, InApply
  <2> QED
    BY <2>1, <2>2, <2>3 DEF IndInv
<1>4. pc[q] \in {"plan", "stage", "journal", "clean"} => InApply(q)
  BY DEF InApply
<1>5. pc[q] \in {"index", "unlink", "drop", "write", "row"} /\ goal[q] = "accepted"
        => InApply(q)
  BY DEF InApply
<1>6. pc[q] = "replace" => goal[q] = "accepted"
  BY DEF IndInv, AtStep
<1> QED
  BY <1>1, <1>2, <1>3, <1>4, <1>5, <1>6 DEF Fault

(* Every step of the system keeps the invariant.                               *)
LEMMA NextInv == IndInv /\ [Next]_vars => IndInv'
<1> SUFFICES ASSUME IndInv, [Next]_vars PROVE IndInv'
  OBVIOUS
<1>1. CASE UNCHANGED vars
  <2>1. TypeOK'
    BY <1>1 DEF IndInv, TypeOK, vars, disk, local
  <2>2. \A r \in Procs : AtStep(r)'
    BY <1>1 DEF IndInv, AtStep, vars, disk, local
  <2>3. ApplyExclusive'
    BY <1>1 DEF IndInv, ApplyExclusive, InApply, vars, disk, local
  <2> QED
    BY <2>1, <2>2, <2>3 DEF IndInv
<1>2. ASSUME NEW q \in Procs, LoadOp(q) PROVE IndInv'
  BY <1>2, LoadOpInv
<1>3. ASSUME NEW q \in Procs, ApplyStep(q) PROVE IndInv'
  BY <1>3, AcquireLockInv, LockTimeoutInv, PlanChangesInv, StageChangesInv,
     WriteJournalInv, JournalFailsInv, ReplaceTargetInv, ReplaceFailsInv,
     CommitFilesInv, IndexTargetInv, RecordAppliedInv, CleanUpInv, RaiseOutInv
     DEF ApplyStep
<1>4. ASSUME NEW q \in Procs, MoveStep(q) PROVE IndInv'
  BY <1>4, MoveUnlinkInv, MoveDropRowInv, WriteProposalInv, IndexProposalInv
     DEF MoveStep
<1>5. ASSUME NEW q \in Procs, UndoStep(q) PROVE IndInv'
  BY <1>5, TruncateInv, UndoTargetInv, UndoIndexInv, MarkRolledBackInv DEF UndoStep
<1>6. ASSUME NEW q \in Procs, RecoverStep(q) PROVE IndInv'
  BY <1>6, RestoreTargetInv, RestoreDoneInv, DiscardCommittedInv,
     RestoreInterruptedInv, RecoveryDoneInv DEF RecoverStep
<1>7. ASSUME NEW q \in Procs, Start(q) \/ Fault(q) \/ Crash(q) PROVE IndInv'
  BY <1>7, StartInv, FaultInv, CrashInv
<1> QED
  BY <1>1, <1>2, <1>3, <1>4, <1>5, <1>6, <1>7 DEF Next, Work

(* The types, the step facts and the exclusion hold in every reachable state.  *)
THEOREM Invariant == Spec => []IndInv
<1> QED
  BY InitInv, NextInv, PTL DEF Spec

(* Every file, row, proposal and journal of the store is of its kind, whatever *)
(* the processes, proposals, changes and failures.                             *)
THEOREM TypeCorrect == Spec => []TypeOK
<1>1. IndInv => TypeOK
  BY DEF IndInv
<1> QED
  BY <1>1, Invariant, PTL

(* apply_proposal's critical section is mutually exclusive, through failures   *)
(* and crashes, for any number of processes.                                   *)
THEOREM Exclusive == Spec => []ApplyExclusive
<1>1. IndInv => ApplyExclusive
  BY DEF IndInv
<1> QED
  BY <1>1, Invariant, PTL
-------------------------------------------------------------------------------
(* What an accepted proposal carries, and what the inbox offers when every     *)
(* proposal has one reviewer.                                                  *)

(* Steps after which a process holds no proposal that it will write.           *)
Quiet == {"idle", "down", "recover", "restore", "release", "clean", "row"}

Planned == {"stage", "journal", "replace", "index"}
Undoing == {"undo", "rewrite", "reindex"}

(* The recorded or planned changes are those of the proposal, one for one.     *)
Covers(s, p) ==
  /\ Len(s) = Len(Changes[p])
  /\ \A i \in DOMAIN Changes[p] : s[i].target = Changes[p][i].target

(* What a process carries from the plan to the accepted file.                  *)
Carries(q) ==
  /\ pc[q] \in Planned => Covers(plan[q], cur[q])
  /\ pc[q] \in {"unlink", "drop", "write"} /\ goal[q] = "accepted"
       => Covers(mem[q].applied, cur[q])
  /\ pc[q] = "drop" => goal[q] = mem[q].status
  /\ pc[q] = "write" /\ mem[q].status = "accepted" => Covers(mem[q].applied, cur[q])
  /\ pc[q] \in Undoing => Covers(mem[q].applied, cur[q])

(* Whatever says accepted, or lies with the accepted, has all its changes.     *)
BoxCovers == \A d \in Dirs, p \in Proposals :
  Exists(d, p) /\ (d = "accepted" \/ box[d][p].status = "accepted")
    => Covers(box[d][p].applied, p)

PathInv == IndInv /\ BoxCovers /\ \A q \in Procs : Carries(q)

(* Every proposal is reviewed by one process.                                  *)
OneReviewer == \A q, r \in Procs : q # r => Desk[q] \cap Desk[r] = {}

Offered(p) == Found(p, "pending", Inbox)

(* Which statuses a directory holds: a rolled back proposal stays accepted/,   *)
(* and feedback puts it into pending/ again, where nothing finds it.           *)
Filed == \A d \in Dirs, p \in Proposals : Exists(d, p) =>
  Dir(box[d][p].status) = d \/ (d = "accepted" /\ box[d][p].status = "rolled_back")

Busy == {"lock", "plan", "unlink", "drop", "write"} \cup Planned \cup Undoing

(* What a reviewer knows of its proposal when it writes.                       *)
Knows(q) ==
  /\ pc[q] \in Busy => cur[q] \in Desk[q]
  /\ pc[q] \in {"lock", "plan", "unlink"} \cup Planned => mem[q].status = "pending"
  /\ pc[q] = "drop" => ~Exists("pending", cur[q]) /\ mem[q].status \in {"accepted", "rejected"}
  /\ pc[q] = "write" =>
       IF mem[q].status = "pending"
       THEN ~Exists("accepted", cur[q]) /\ ~Exists("rejected", cur[q])
       ELSE mem[q].status = "rolled_back" \/ ~Exists("pending", cur[q])
  /\ pc[q] \in Undoing => ~Offered(cur[q])

OfferInv == IndInv /\ Filed /\ SettledNotOffered /\ \A q \in Procs : Knows(q)

-------------------------------------------------------------------------------
(* What the steps do to the inbox and to the processes.                        *)

Apart(q) == \A r \in Procs \ {q} :
  /\ pc'[r] = pc[r] /\ goal'[r] = goal[r] /\ cur'[r] = cur[r]
  /\ mem'[r] = mem[r] /\ plan'[r] = plan[r]

LEMMA LeaveDoes ==
  ASSUME TypeOK, NEW q \in Procs, NEW to \in {"idle", "down"}, Leave(q, to)
  PROVE  Apart(q) /\ pc'[q] \in Quiet
  BY DEF TypeOK, Leave, Apart, Quiet

LEMMA RestoreDoes ==
  ASSUME TypeOK, NEW q \in Procs, NEW p, NEW to, BeginRestore(q, p, to), UNCHANGED <<mem, plan>>
  PROVE  Apart(q) /\ pc'[q] \in Quiet
  BY DEF TypeOK, BeginRestore, Apart, Quiet

(* Steps that end an operation, or belong to a restore or a recovery.          *)
Resting(q) == \/ LockTimeout(q) \/ JournalFails(q) \/ ReplaceFails(q) \/ CleanUp(q)
              \/ RaiseOut(q) \/ IndexProposal(q) \/ RecoverStep(q)
              \/ Start(q) \/ Fault(q) \/ Crash(q)

LEMMA RestingDoes ==
  ASSUME IndInv, NEW q \in Procs, Resting(q)
  PROVE  Apart(q) /\ UNCHANGED box /\ pc'[q] \in Quiet
<1>0. TypeOK
  BY DEF IndInv
<1>1. CASE LockTimeout(q)
  BY <1>0, <1>1, LeaveDoes DEF LockTimeout, disk
<1>2. CASE JournalFails(q)
  BY <1>0, <1>2 DEF JournalFails, Step, disk, TypeOK, Apart, Quiet
<1>3. CASE ReplaceFails(q)
  BY <1>0, <1>3, RestoreDoes DEF ReplaceFails, disk
<1>4. CASE CleanUp(q)
  BY <1>0, <1>4, LeaveDoes DEF CleanUp
<1>5. CASE RaiseOut(q)
  BY <1>0, <1>5, LeaveDoes DEF RaiseOut, disk
<1>6. CASE IndexProposal(q)
  <2>1. CASE Leave(q, "idle")
    BY <1>0, <1>6, <2>1, LeaveDoes DEF IndexProposal
  <2>2. CASE pc' = [pc EXCEPT ![q] = "clean"] /\ UNCHANGED <<goal, cur, mem, plan>>
    BY <1>0, <1>6, <2>2 DEF IndexProposal, TypeOK, Apart, Quiet
  <2> QED
    BY <1>6, <2>1, <2>2 DEF IndexProposal
<1>7. CASE RecoverStep(q)
  <2>1. CASE RestoreTarget(q)
    BY <1>0, <2>1 DEF RestoreTarget, TypeOK, Apart, Quiet
  <2>2. CASE RestoreDone(q)
    BY <1>0, <2>2 DEF RestoreDone, Step, TypeOK, Apart, Quiet
  <2>3. CASE DiscardCommitted(q)
    BY <1>0, <2>3 DEF DiscardCommitted, TypeOK, Apart, Quiet
  <2>4. CASE RestoreInterrupted(q)
    BY <1>0, <2>4, RestoreDoes DEF RestoreInterrupted, disk
  <2>5. CASE RecoveryDone(q)
    BY <1>0, <2>5, LeaveDoes DEF RecoveryDone, disk
  <2> QED
    BY <1>7, <2>1, <2>2, <2>3, <2>4, <2>5 DEF RecoverStep
<1>8. CASE Start(q)
  BY <1>0, <1>8 DEF Start, disk, TypeOK, Apart, Quiet
<1>9. CASE Fault(q)
  <2>0. UNCHANGED box
    BY <1>9 DEF Fault, disk
  <2>1. CASE Leave(q, "idle")
    BY <1>0, <2>0, <2>1, LeaveDoes
  <2>2. CASE BeginRestore(q, cur[q], "accepted") /\ UNCHANGED <<mem, plan, todo>>
    BY <1>0, <2>0, <2>2, RestoreDoes
  <2>3. CASE /\ pc' = [pc EXCEPT ![q] = "release"]
             /\ UNCHANGED <<goal, cur, mem, plan, undo, idx, todo>>
    BY <1>0, <2>0, <2>3 DEF TypeOK, Apart, Quiet
  <2> QED
    BY <1>9, <2>1, <2>2, <2>3 DEF Fault
<1>10. CASE Crash(q)
  BY <1>0, <1>10, LeaveDoes DEF Crash, disk
<1> QED
  BY <1>1, <1>2, <1>3, <1>4, <1>5, <1>6, <1>7, <1>8, <1>9, <1>10 DEF Resting

(* Steps that go on with what the process holds.                               *)
Onward(q) == \/ AcquireLock(q) \/ PlanChanges(q) \/ StageChanges(q) \/ WriteJournal(q)
             \/ ReplaceTarget(q) \/ CommitFiles(q) \/ IndexTarget(q) \/ MoveDropRow(q)
             \/ Truncate(q) \/ UndoTarget(q) \/ UndoIndex(q)

LEMMA OnwardDoes ==
  ASSUME IndInv, NEW q \in Procs, Onward(q)
  PROVE  /\ Apart(q) /\ UNCHANGED <<box, goal, cur, mem>>
         /\ \/ pc[q] = "lock" /\ pc'[q] = "plan"
            \/ pc[q] = "plan" /\ pc'[q] = "stage" /\ plan'[q] = PlanOf(cur[q], mem[q].ed, files)
            \/ pc[q] \in Planned /\ pc'[q] \in Planned /\ plan'[q] = plan[q]
            \/ pc[q] = "drop" /\ pc'[q] = "write"
            \/ pc[q] \in Undoing /\ pc'[q] \in Undoing
<1>0. TypeOK
  BY DEF IndInv
<1>1. CASE AcquireLock(q)
  BY <1>0, <1>1 DEF AcquireLock, Step, disk, TypeOK, Apart
<1>2. CASE PlanChanges(q)
  BY <1>0, <1>2 DEF PlanChanges, Step, disk, TypeOK, Apart
<1>3. CASE StageChanges(q)
  BY <1>0, <1>3 DEF StageChanges, Step, TypeOK, Apart, Planned
<1>4. CASE WriteJournal(q)
  BY <1>0, <1>4 DEF WriteJournal, Step, TypeOK, Apart, Planned
<1>5. CASE ReplaceTarget(q)
  BY <1>0, <1>5 DEF ReplaceTarget, TypeOK, Apart, Planned
<1>6. CASE CommitFiles(q)
  BY <1>0, <1>6 DEF CommitFiles, Step, TypeOK, Apart, Planned
<1>7. CASE IndexTarget(q)
  BY <1>0, <1>7 DEF IndexTarget, TypeOK, Apart, Planned
<1>8. CASE MoveDropRow(q)
  BY <1>0, <1>8 DEF MoveDropRow, Step, TypeOK, Apart
<1>9. CASE UndoTarget(q)
  BY <1>0, <1>9 DEF UndoTarget, Step, TypeOK, Apart, Undoing
<1>10. CASE UndoIndex(q)
  BY <1>0, <1>10 DEF UndoIndex, Step, TypeOK, Apart, Undoing
<1>11. CASE Truncate(q)
  BY <1>0, <1>11 DEF Truncate, Step, TypeOK, Apart, Undoing
<1> QED
  BY <1>1, <1>2, <1>3, <1>4, <1>5, <1>6, <1>7, <1>8, <1>9, <1>10, <1>11 DEF Onward

(* A request reads a proposal of its desk.                                     *)
LEMMA LoadDoes ==
  ASSUME TypeOK, NEW q \in Procs, NEW op, NEW p, NEW rec, NEW to, NEW next,
         Load(q, op, p, rec, to, next)
  PROVE  /\ Apart(q) /\ UNCHANGED box /\ p \in Desk[q]
         /\ pc'[q] = next /\ goal'[q] = to /\ cur'[q] = p /\ mem'[q] = rec
  BY DEF TypeOK, Load, disk, Apart

LEMMA RecordAppliedDoes ==
  ASSUME IndInv, NEW q \in Procs, RecordApplied(q)
  PROVE  /\ Apart(q) /\ UNCHANGED <<box, goal, cur>> /\ pc[q] = "index" /\ pc'[q] = "unlink"
         /\ mem'[q].applied = Recorded(plan[q]) /\ mem'[q].status = mem[q].status
<1>1. TypeOK /\ mem[q] \in Proposal
  BY DEF IndInv, TypeOK
<1>2. mem'[q] = [mem[q] EXCEPT !.applied = Recorded(plan[q])]
  BY <1>1 DEF RecordApplied, TypeOK
<1>3. mem'[q].applied = Recorded(plan[q]) /\ mem'[q].status = mem[q].status
  BY <1>1, <1>2 DEF Proposal
<1> QED
  BY <1>1, <1>3 DEF RecordApplied, Step, disk, TypeOK, Apart

(* move_proposal and write_proposal touch their own proposal only.             *)
OwnFile(q) ==
  /\ cur[q] \in Proposals
  /\ \A d \in Dirs, p \in Proposals \ {cur[q]} : box'[d][p] = box[d][p]

LEMMA MoveUnlinkDoes ==
  ASSUME IndInv, NEW q \in Procs, MoveUnlink(q)
  PROVE  /\ Apart(q) /\ OwnFile(q) /\ UNCHANGED <<goal, cur>>
         /\ pc[q] = "unlink" /\ pc'[q] = "drop" /\ goal[q] \in {"accepted", "rejected"}
         /\ mem'[q].status = goal[q] /\ mem'[q].applied = mem[q].applied
         /\ box'[Dir(mem[q].status)][cur[q]] = Absent
         /\ \A d \in Dirs \ {Dir(mem[q].status)} : box'[d] = box[d]
<1>1. TypeOK /\ mem[q] \in Proposal /\ pc[q] = "unlink"
  BY DEF IndInv, TypeOK, MoveUnlink, Step
<1>2. cur[q] \in Proposals /\ goal[q] \in {"accepted", "rejected"}
  BY <1>1 DEF IndInv, AtStep
<1>3. mem'[q] = [mem[q] EXCEPT !.status = goal[q]]
  BY <1>1 DEF MoveUnlink, TypeOK
<1>4. mem'[q].status = goal[q] /\ mem'[q].applied = mem[q].applied
  BY <1>1, <1>3 DEF Proposal
<1>5. Dir(mem[q].status) \in Dirs
  BY DEF Dir, Dirs
<1>6. /\ box' = [box EXCEPT ![Dir(mem[q].status)][cur[q]] = Absent]
      /\ pc'[q] = "drop" /\ UNCHANGED <<goal, cur>> /\ Apart(q)
  BY <1>1 DEF MoveUnlink, Step, TypeOK, Apart
<1>7. /\ OwnFile(q) /\ box'[Dir(mem[q].status)][cur[q]] = Absent
      /\ \A d \in Dirs \ {Dir(mem[q].status)} : box'[d] = box[d]
  BY <1>1, <1>2, <1>5, <1>6 DEF TypeOK, OwnFile
<1> QED
  BY <1>1, <1>2, <1>4, <1>6, <1>7

LEMMA WriteProposalDoes ==
  ASSUME IndInv, NEW q \in Procs, WriteProposal(q)
  PROVE  /\ Apart(q) /\ OwnFile(q) /\ pc[q] = "write" /\ pc'[q] = "row"
         /\ Dir(mem[q].status) \in Dirs /\ box'[Dir(mem[q].status)][cur[q]] = mem[q]
         /\ \A d \in Dirs \ {Dir(mem[q].status)} : box'[d] = box[d]
<1>1. TypeOK /\ pc[q] = "write"
  BY DEF IndInv, WriteProposal, Step
<1>2. cur[q] \in Proposals
  BY <1>1 DEF IndInv, AtStep
<1>3. Dir(mem[q].status) \in Dirs
  BY DEF Dir, Dirs
<1>4. /\ box' = [box EXCEPT ![Dir(mem[q].status)][cur[q]] = mem[q]]
      /\ pc'[q] = "row" /\ Apart(q)
  BY <1>1 DEF WriteProposal, Step, TypeOK, Apart
<1>5. /\ OwnFile(q) /\ box'[Dir(mem[q].status)][cur[q]] = mem[q]
      /\ \A d \in Dirs \ {Dir(mem[q].status)} : box'[d] = box[d]
  BY <1>1, <1>2, <1>3, <1>4 DEF TypeOK, OwnFile
<1> QED
  BY <1>1, <1>3, <1>4, <1>5

LEMMA MarkRolledBackDoes ==
  ASSUME IndInv, NEW q \in Procs, MarkRolledBack(q)
  PROVE  /\ Apart(q) /\ OwnFile(q) /\ pc[q] = "undo" /\ pc'[q] = "row"
         /\ box'["accepted"][cur[q]].status = "rolled_back"
         /\ box'["accepted"][cur[q]].applied = mem[q].applied
         /\ \A d \in Dirs \ {"accepted"} : box'[d] = box[d]
<1>1. TypeOK /\ pc[q] = "undo" /\ mem[q] \in Proposal
  BY DEF IndInv, MarkRolledBack, Step, TypeOK
<1>2. cur[q] \in Proposals
  BY <1>1 DEF IndInv, AtStep
<1>3. mem'[q] = [mem[q] EXCEPT !.status = "rolled_back"]
  BY <1>1 DEF MarkRolledBack, TypeOK
<1>4. mem'[q].status = "rolled_back" /\ mem'[q].applied = mem[q].applied
  BY <1>1, <1>3 DEF Proposal
<1>5. /\ box' = [box EXCEPT !["accepted"][cur[q]] = mem'[q]]
      /\ pc'[q] = "row" /\ Apart(q)
  BY <1>1 DEF MarkRolledBack, Step, TypeOK, Apart
<1>6. /\ OwnFile(q) /\ box'["accepted"][cur[q]] = mem'[q]
      /\ \A d \in Dirs \ {"accepted"} : box'[d] = box[d]
  BY <1>1, <1>2, <1>5 DEF TypeOK, OwnFile, Dirs
<1> QED
  BY <1>1, <1>4, <1>5, <1>6

(* Every step of a process is of one of these kinds.                           *)
LEMMA Kinds ==
  ASSUME NEW q \in Procs, LoadOp(q) \/ Work(q) \/ Start(q) \/ Fault(q) \/ Crash(q)
  PROVE  \/ LoadOp(q) \/ Resting(q) \/ Onward(q) \/ RecordApplied(q) \/ MoveUnlink(q)
         \/ WriteProposal(q) \/ MarkRolledBack(q)
  BY DEF Work, ApplyStep, MoveStep, UndoStep, Resting, Onward

-------------------------------------------------------------------------------
(* The contents every change replaced travel from the plan to accepted/.       *)

LEMMA PlanCovers ==
  ASSUME NEW p \in Proposals, NEW e, NEW found
  PROVE  Covers(PlanOf(p, e, found), p)
<1> DEFINE C == [target : Targets, op : {"append", "write", "merge"}]
           Plan(i) == [target |-> Changes[p][i].target,
                       before |-> found[Changes[p][i].target],
                       after  |-> After(Changes[p][i].op,
                                        found[Changes[p][i].target], <<p, e, i>>)]
<1>1. Changes[p] \in Seq(C)
  BY ChangesAssumption
<1>2. DOMAIN Changes[p] = 1..Len(Changes[p]) /\ Len(Changes[p]) \in Nat
  <2> HIDE DEF C
  <2> QED
    BY <1>1
<1>3. PlanOf(p, e, found) = [i \in 1..Len(Changes[p]) |-> Plan(i)]
  BY <1>2 DEF PlanOf
<1>4. \A i \in DOMAIN Changes[p] : Plan(i).target = Changes[p][i].target
  OBVIOUS
<1> HIDE DEF Plan
<1>5. Len(PlanOf(p, e, found)) = Len(Changes[p])
  BY <1>2, <1>3
<1> QED
  BY <1>2, <1>3, <1>4, <1>5 DEF Covers

LEMMA RecordCovers ==
  ASSUME NEW s \in Seq(PlannedChange), NEW p \in Proposals, Covers(s, p)
  PROVE  Covers(Recorded(s), p)
<1> DEFINE C == [target : Targets, op : {"append", "write", "merge"}]
           Entry(i) == [target |-> s[i].target, before |-> s[i].before]
<1>1. DOMAIN s = 1..Len(s) /\ Len(s) \in Nat
  OBVIOUS
<1>2. DOMAIN Changes[p] = 1..Len(Changes[p])
  <2>1. Changes[p] \in Seq(C)
    BY ChangesAssumption
  <2> HIDE DEF C
  <2> QED
    BY <2>1
<1>3. Recorded(s) = [i \in 1..Len(s) |-> Entry(i)]
  BY <1>1 DEF Recorded
<1>4. \A i \in DOMAIN s : Entry(i).target = s[i].target
  OBVIOUS
<1> HIDE DEF Entry
<1>5. Len(Recorded(s)) = Len(s)
  BY <1>1, <1>3
<1> QED
  BY <1>1, <1>2, <1>3, <1>4, <1>5 DEF Covers

LEMMA PathKept ==
  ASSUME PathInv, IndInv', NEW q \in Procs, Apart(q), Carries(q)', BoxCovers'
  PROVE  PathInv'
<1>1. ASSUME NEW r \in Procs PROVE Carries(r)'
  <2>1. CASE r # q
    BY <2>1 DEF PathInv, Carries, Apart
  <2> QED
    BY <2>1
<1> QED
  BY <1>1 DEF PathInv

LEMMA SameBoxCovers == ASSUME PathInv, UNCHANGED box PROVE BoxCovers'
  BY DEF PathInv, BoxCovers, Exists

LEMMA LoadPath ==
  ASSUME PathInv, IndInv', NEW q \in Procs, NEW op, NEW p \in Proposals, NEW rec, NEW to, NEW next,
         Load(q, op, p, rec, to, next),
         \/ next = "lock"
         \/ next = "unlink" /\ to = "rejected"
         \/ next = "write" /\ to = "saved" /\ (rec.status = "accepted" => Covers(rec.applied, p))
         \/ next = "undo" /\ Covers(rec.applied, p)
  PROVE  PathInv'
<1>1. /\ Apart(q) /\ UNCHANGED box
      /\ pc'[q] = next /\ goal'[q] = to /\ cur'[q] = p /\ mem'[q] = rec
  BY LoadDoes DEF PathInv, IndInv
<1>2. Carries(q)'
  BY <1>1 DEF Carries, Planned, Undoing
<1> QED
  BY <1>1, <1>2, SameBoxCovers, PathKept

LEMMA LoadOpPath ==
  ASSUME PathInv, IndInv', NEW q \in Procs, LoadOp(q)
  PROVE  PathInv'
<1>1. CASE LoadAccept(q)
  BY <1>1, LoadPath DEF LoadAccept
<1>2. CASE LoadReject(q)
  BY <1>2, LoadPath DEF LoadReject
<1>3. CASE LoadEdit(q)
  <2>1. PICK p \in Proposals :
          /\ Found(p, "pending", Inbox)
          /\ Load(q, "edit", p, [box["pending"][p] EXCEPT !.ed = @ + 1], "saved", "write")
    BY <1>3 DEF LoadEdit
  <2> DEFINE rec == [box["pending"][p] EXCEPT !.ed = @ + 1]
  <2>2. rec.status # "accepted"
    <3>1. box["pending"][p] \in Proposal /\ box["pending"][p].status = "pending"
      BY <2>1 DEF Found, Inbox, Exists, PathInv, IndInv, TypeOK, Dirs
    <3> QED
      BY <3>1 DEF Proposal
  <2>3. Load(q, "edit", p, rec, "saved", "write")
    BY <2>1
  <2> HIDE DEF rec
  <2> QED
    BY <2>2, <2>3, LoadPath
<1>4. CASE LoadFeedback(q)
  <2>1. PICK p \in Proposals, d \in Dirs :
          /\ Exists(d, p) /\ Load(q, "feedback", p, box[d][p], "saved", "write")
    BY <1>4 DEF LoadFeedback
  <2>2. box[d][p].status = "accepted" => Covers(box[d][p].applied, p)
    BY <2>1 DEF PathInv, BoxCovers
  <2> QED
    BY <2>1, <2>2, LoadPath
<1>5. CASE LoadRollback(q)
  <2>1. PICK p \in Proposals :
          /\ Found(p, "accepted", {"accepted"})
          /\ Load(q, "rollback", p, box["accepted"][p], "rolled_back", "undo")
    BY <1>5 DEF LoadRollback
  <2>2. Covers(box["accepted"][p].applied, p)
    BY <2>1 DEF PathInv, BoxCovers, Found, Dirs
  <2> QED
    BY <2>1, <2>2, LoadPath
<1> QED
  BY <1>1, <1>2, <1>3, <1>4, <1>5 DEF LoadOp

LEMMA OnwardPath ==
  ASSUME PathInv, IndInv', NEW q \in Procs, Onward(q)
  PROVE  PathInv'
<1>1. IndInv /\ Carries(q) /\ AtStep(q) /\ AtStep(q)'
  BY DEF PathInv, IndInv
<1>2. Apart(q) /\ UNCHANGED <<box, goal, cur, mem>>
  BY <1>1, OnwardDoes
<1>3. Carries(q)'
  <2>1. CASE pc[q] = "lock" /\ pc'[q] = "plan"
    BY <2>1 DEF Carries, Planned, Undoing
  <2>2. CASE pc[q] = "plan" /\ pc'[q] = "stage" /\ plan'[q] = PlanOf(cur[q], mem[q].ed, files)
    <3>1. cur[q] \in Proposals
      BY <1>1, <2>2 DEF AtStep
    <3>2. Covers(plan'[q], cur[q])
      BY <2>2, <3>1, PlanCovers
    <3> QED
      BY <1>2, <2>2, <3>2 DEF Carries, Planned, Undoing
  <2>3. CASE pc[q] \in Planned /\ pc'[q] \in Planned /\ plan'[q] = plan[q]
    BY <1>1, <1>2, <2>3 DEF Carries, Planned, Undoing
  <2>4. CASE pc[q] = "drop" /\ pc'[q] = "write"
    BY <1>1, <1>2, <2>4 DEF Carries, Planned, Undoing
  <2>5. CASE pc[q] \in Undoing /\ pc'[q] \in Undoing
    BY <1>1, <1>2, <2>5 DEF Carries, Planned, Undoing
  <2> QED
    BY <1>1, <2>1, <2>2, <2>3, <2>4, <2>5, OnwardDoes
<1> QED
  BY <1>2, <1>3, SameBoxCovers, PathKept

(* A file that was written has all the changes, the others are as they were.   *)
LEMMA OwnFileCovers ==
  ASSUME PathInv, NEW q \in Procs, OwnFile(q),
         NEW d \in Dirs, \A e \in Dirs \ {d} : box'[e] = box[e],
         box'[d][cur[q]] # Absent /\ (d = "accepted" \/ box'[d][cur[q]].status = "accepted")
           => Covers(box'[d][cur[q]].applied, cur[q])
  PROVE  BoxCovers'
<1> SUFFICES ASSUME NEW e \in Dirs, NEW p \in Proposals, Exists(e, p)',
                    e = "accepted" \/ box'[e][p].status = "accepted"
             PROVE  Covers(box'[e][p].applied, p)
  BY DEF BoxCovers, Covers
<1>1. CASE e = d /\ p = cur[q]
  BY <1>1 DEF Exists
<1>2. CASE ~(e = d /\ p = cur[q])
  <2>1. box'[e][p] = box[e][p]
    BY <1>2 DEF OwnFile
  <2> QED
    BY <2>1 DEF PathInv, BoxCovers, Exists
<1> QED
  BY <1>1, <1>2

LEMMA PathStep ==
  ASSUME PathInv, IndInv', NEW q \in Procs,
         LoadOp(q) \/ Work(q) \/ Start(q) \/ Fault(q) \/ Crash(q)
  PROVE  PathInv'
<1>0. IndInv /\ Carries(q) /\ AtStep(q) /\ TypeOK
  BY DEF PathInv, IndInv
<1>1. CASE Resting(q)
  <2>1. Apart(q) /\ UNCHANGED box /\ pc'[q] \in Quiet
    BY <1>0, <1>1, RestingDoes
  <2>2. Carries(q)'
    BY <2>1 DEF Carries, Quiet, Planned, Undoing
  <2> QED
    BY <2>1, <2>2, SameBoxCovers, PathKept
<1>2. CASE RecordApplied(q)
  <2>1. /\ Apart(q) /\ UNCHANGED <<box, goal, cur>> /\ pc[q] = "index" /\ pc'[q] = "unlink"
        /\ mem'[q].applied = Recorded(plan[q])
    BY <1>0, <1>2, RecordAppliedDoes
  <2>2. Covers(mem'[q].applied, cur[q])
    <3>1. Covers(plan[q], cur[q]) /\ cur[q] \in Proposals /\ plan[q] \in Seq(PlannedChange)
      BY <1>0, <2>1 DEF Carries, Planned, AtStep, TypeOK
    <3> QED
      BY <2>1, <3>1, RecordCovers
  <2>3. Carries(q)'
    BY <2>1, <2>2 DEF Carries, Planned, Undoing
  <2> QED
    BY <2>1, <2>3, SameBoxCovers, PathKept
<1>3. CASE MoveUnlink(q)
  <2>1. /\ Apart(q) /\ OwnFile(q) /\ UNCHANGED <<goal, cur>>
        /\ pc[q] = "unlink" /\ pc'[q] = "drop"
        /\ mem'[q].status = goal[q] /\ mem'[q].applied = mem[q].applied
        /\ box'[Dir(mem[q].status)][cur[q]] = Absent
        /\ \A d \in Dirs \ {Dir(mem[q].status)} : box'[d] = box[d]
    BY <1>0, <1>3, MoveUnlinkDoes
  <2>2. Carries(q)'
    BY <1>0, <2>1 DEF Carries, Planned, Undoing
  <2>3. Dir(mem[q].status) \in Dirs
    BY DEF Dir, Dirs
  <2>4. BoxCovers'
    BY <2>1, <2>3, OwnFileCovers
  <2> QED
    BY <2>1, <2>2, <2>4, PathKept
<1>4. CASE WriteProposal(q)
  <2>1. /\ Apart(q) /\ OwnFile(q) /\ pc[q] = "write" /\ pc'[q] = "row"
        /\ Dir(mem[q].status) \in Dirs /\ box'[Dir(mem[q].status)][cur[q]] = mem[q]
        /\ \A d \in Dirs \ {Dir(mem[q].status)} : box'[d] = box[d]
    BY <1>0, <1>4, WriteProposalDoes
  <2>2. Carries(q)'
    BY <2>1 DEF Carries, Planned, Undoing
  <2>3. Dir(mem[q].status) = "accepted" \/ mem[q].status = "accepted"
          => Covers(mem[q].applied, cur[q])
    BY <1>0, <2>1 DEF Carries, Dir
  <2>4. BoxCovers'
    BY <2>1, <2>3, OwnFileCovers
  <2> QED
    BY <2>1, <2>2, <2>4, PathKept
<1>5. CASE MarkRolledBack(q)
  <2>1. /\ Apart(q) /\ OwnFile(q) /\ pc[q] = "undo" /\ pc'[q] = "row"
        /\ box'["accepted"][cur[q]].applied = mem[q].applied
        /\ \A d \in Dirs \ {"accepted"} : box'[d] = box[d]
    BY <1>0, <1>5, MarkRolledBackDoes
  <2>2. Carries(q)'
    BY <2>1 DEF Carries, Planned, Undoing
  <2>3. Covers(mem[q].applied, cur[q]) /\ "accepted" \in Dirs
    BY <1>0, <2>1 DEF Carries, Undoing, Dirs
  <2>4. BoxCovers'
    BY <2>1, <2>3, OwnFileCovers
  <2> QED
    BY <2>1, <2>2, <2>4, PathKept
<1> QED
  BY <1>1, <1>2, <1>3, <1>4, <1>5, LoadOpPath, OnwardPath, Kinds

LEMMA PathNext == PathInv /\ [Next]_vars => PathInv'
<1> SUFFICES ASSUME PathInv, [Next]_vars PROVE PathInv'
  OBVIOUS
<1>0. IndInv /\ IndInv'
  BY NextInv DEF PathInv
<1>1. ASSUME NEW q \in Procs, LoadOp(q) \/ Work(q) \/ Start(q) \/ Fault(q) \/ Crash(q)
      PROVE  PathInv'
  BY <1>0, <1>1, PathStep
<1>2. CASE UNCHANGED vars
  BY <1>0, <1>2 DEF PathInv, BoxCovers, Exists, Carries, vars, disk, local
<1> QED
  BY <1>1, <1>2 DEF Next

LEMMA PathInit == Init => PathInv
<1> SUFFICES ASSUME Init PROVE PathInv
  OBVIOUS
<1>1. IndInv
  BY InitInv
<1>2. BoxCovers
  BY DEF Init, BoxCovers, Exists, NoRec, Dirs
<1>3. \A q \in Procs : Carries(q)
  BY DEF Init, Carries, Planned, Undoing
<1> QED
  BY <1>1, <1>2, <1>3 DEF PathInv

(* An accepted proposal always carries the contents that every one of its      *)
(* changes replaced, so that rollback_proposal can put them back, however many *)
(* processes race for it, fail, are killed or recover.                         *)
THEOREM RollbackReady == Spec => []RollbackPath
<1>1. PathInv => RollbackPath
  BY DEF PathInv, BoxCovers, RollbackPath, Covers, Dirs
<1>2. Spec => []PathInv
  BY PathInit, PathNext, PTL DEF Spec
<1> QED
  BY <1>1, <1>2, PTL

-------------------------------------------------------------------------------
(* With one reviewer for every proposal, what is settled is not offered.       *)

LEMMA OfferKept ==
  ASSUME OneReviewer, OfferInv, IndInv', NEW q \in Procs, Apart(q), Knows(q)',
         Filed', SettledNotOffered',
         UNCHANGED box \/ (OwnFile(q) /\ cur[q] \in Desk[q])
  PROVE  OfferInv'
<1>1. ASSUME NEW r \in Procs \ {q} PROVE Knows(r)'
  <2>1. /\ pc'[r] = pc[r] /\ cur'[r] = cur[r] /\ mem'[r] = mem[r] /\ Knows(r)
    BY DEF Apart, OfferInv
  <2>2. CASE pc[r] \notin Busy
    BY <2>1, <2>2 DEF Knows, Busy
  <2>3. CASE pc[r] \in Busy
    <3>1. cur[r] \in Desk[r] /\ cur[r] \in Proposals
      BY <2>1, <2>3, StoreAssumption DEF Knows
    <3>2. \A d \in Dirs : box'[d][cur[r]] = box[d][cur[r]]
      BY <3>1 DEF OneReviewer, OwnFile
    <3> QED
      BY <2>1, <3>1, <3>2 DEF Knows, Exists, Offered, Found, Dirs
  <2> QED
    BY <2>2, <2>3
<1> QED
  BY <1>1 DEF OfferInv

LEMMA SameBoxOffers == ASSUME OfferInv, UNCHANGED box PROVE Filed' /\ SettledNotOffered'
  BY DEF OfferInv, Filed, SettledNotOffered, Found, Exists

LEMMA LoadOffer ==
  ASSUME OneReviewer, OfferInv, IndInv', NEW q \in Procs, NEW op, NEW p \in Proposals, NEW rec,
         NEW to, NEW next, Load(q, op, p, rec, to, next),
         \/ next \in {"lock", "unlink"} /\ rec.status = "pending"
         \/ /\ next = "write"
            /\ IF rec.status = "pending" THEN ~Exists("accepted", p) /\ ~Exists("rejected", p)
               ELSE rec.status = "rolled_back" \/ ~Exists("pending", p)
         \/ next = "undo" /\ ~Offered(p)
  PROVE  OfferInv'
<1>1. /\ Apart(q) /\ UNCHANGED box /\ p \in Desk[q]
      /\ pc'[q] = next /\ goal'[q] = to /\ cur'[q] = p /\ mem'[q] = rec
  BY LoadDoes DEF OfferInv, IndInv
<1>2. Knows(q)'
  BY <1>1 DEF Knows, Planned, Undoing, Exists, Offered, Found
<1> QED
  BY <1>1, <1>2, SameBoxOffers, OfferKept

LEMMA LoadOpOffer ==
  ASSUME OneReviewer, OfferInv, IndInv', NEW q \in Procs, LoadOp(q)
  PROVE  OfferInv'
<1>0. Filed /\ SettledNotOffered
  BY DEF OfferInv
<1>1. CASE LoadAccept(q)
  BY <1>1, LoadOffer DEF LoadAccept, Found, Inbox
<1>2. CASE LoadReject(q)
  BY <1>2, LoadOffer DEF LoadReject, Found, Inbox
<1>3. CASE LoadEdit(q)
  <2>1. PICK p \in Proposals :
          /\ Found(p, "pending", Inbox)
          /\ Load(q, "edit", p, [box["pending"][p] EXCEPT !.ed = @ + 1], "saved", "write")
    BY <1>3 DEF LoadEdit
  <2> DEFINE rec == [box["pending"][p] EXCEPT !.ed = @ + 1]
  <2>2. rec.status = "pending"
    <3>1. box["pending"][p] \in Proposal /\ box["pending"][p].status = "pending"
      BY <2>1 DEF Found, Inbox, Exists, OfferInv, IndInv, TypeOK, Dirs
    <3> QED
      BY <3>1 DEF Proposal
  <2>3. Load(q, "edit", p, rec, "saved", "write")
    BY <2>1
  <2>4. ~Exists("accepted", p) /\ ~Exists("rejected", p)
    BY <1>0, <2>1 DEF SettledNotOffered
  <2> HIDE DEF rec
  <2> QED
    BY <2>2, <2>3, <2>4, LoadOffer
<1>4. CASE LoadFeedback(q)
  <2>1. PICK p \in Proposals, d \in Dirs :
          /\ Exists(d, p)
          /\ d = "accepted" => ~Exists("pending", p)
          /\ d = "rejected" => ~Exists("pending", p) /\ ~Exists("accepted", p)
          /\ Load(q, "feedback", p, box[d][p], "saved", "write")
    BY <1>4 DEF LoadFeedback
  <2>2. Dir(box[d][p].status) = d \/ box[d][p].status = "rolled_back"
    BY <1>0, <2>1 DEF Filed
  <2>3. IF box[d][p].status = "pending" THEN ~Exists("accepted", p) /\ ~Exists("rejected", p)
        ELSE box[d][p].status = "rolled_back" \/ ~Exists("pending", p)
    <3>1. CASE box[d][p].status = "pending"
      <4>1. d = "pending"
        BY <2>2, <3>1 DEF Dir
      <4> QED
        BY <1>0, <2>1, <3>1, <4>1 DEF SettledNotOffered, Found, Inbox
    <3>2. CASE box[d][p].status # "pending" /\ box[d][p].status # "rolled_back"
      <4>1. box[d][p].status \in {"accepted", "rejected"}
        BY <2>1, <3>2 DEF OfferInv, IndInv, TypeOK, Exists, Proposal, Statuses
      <4>2. d = box[d][p].status
        BY <2>2, <3>2, <4>1 DEF Dir
      <4> QED
        BY <2>1, <3>2, <4>1, <4>2
    <3> QED
      BY <3>1, <3>2
  <2> QED
    BY <2>1, <2>3, LoadOffer
<1>5. CASE LoadRollback(q)
  <2>1. PICK p \in Proposals :
          /\ Found(p, "accepted", {"accepted"})
          /\ Load(q, "rollback", p, box["accepted"][p], "rolled_back", "undo")
    BY <1>5 DEF LoadRollback
  <2>2. ~Offered(p)
    BY <1>0, <2>1 DEF SettledNotOffered, Found, Offered
  <2> QED
    BY <2>1, <2>2, LoadOffer
<1> QED
  BY <1>1, <1>2, <1>3, <1>4, <1>5 DEF LoadOp

LEMMA OnwardOffer ==
  ASSUME OneReviewer, OfferInv, IndInv', NEW q \in Procs, Onward(q)
  PROVE  OfferInv'
<1>1. IndInv /\ Knows(q)
  BY DEF OfferInv
<1>2. Apart(q) /\ UNCHANGED <<box, goal, cur, mem>>
  BY <1>1, OnwardDoes
<1>3. \/ pc[q] = "lock" /\ pc'[q] = "plan"
      \/ pc[q] = "plan" /\ pc'[q] = "stage"
      \/ pc[q] \in Planned /\ pc'[q] \in Planned
      \/ pc[q] = "drop" /\ pc'[q] = "write"
      \/ pc[q] \in Undoing /\ pc'[q] \in Undoing
  BY <1>1, OnwardDoes
<1>4. Knows(q)'
  BY <1>1, <1>2, <1>3 DEF Knows, Busy, Planned, Undoing, Exists, Offered, Found
<1> QED
  BY <1>2, <1>4, SameBoxOffers, OfferKept

LEMMA OfferStep ==
  ASSUME OneReviewer, OfferInv, IndInv', NEW q \in Procs,
         LoadOp(q) \/ Work(q) \/ Start(q) \/ Fault(q) \/ Crash(q)
  PROVE  OfferInv'
<1>0. IndInv /\ Knows(q) /\ Filed /\ SettledNotOffered
  BY DEF OfferInv
<1>1. CASE Resting(q)
  <2>1. Apart(q) /\ UNCHANGED box /\ pc'[q] \in Quiet
    BY <1>0, <1>1, RestingDoes
  <2>2. Knows(q)'
    BY <2>1 DEF Knows, Quiet, Busy, Planned, Undoing
  <2> QED
    BY <2>1, <2>2, SameBoxOffers, OfferKept
<1>2. CASE RecordApplied(q)
  <2>1. /\ Apart(q) /\ UNCHANGED <<box, goal, cur>> /\ pc[q] = "index" /\ pc'[q] = "unlink"
        /\ mem'[q].status = mem[q].status
    BY <1>0, <1>2, RecordAppliedDoes
  <2>2. Knows(q)'
    BY <1>0, <2>1 DEF Knows, Busy, Planned, Undoing
  <2> QED
    BY <2>1, <2>2, SameBoxOffers, OfferKept
<1>3. CASE MoveUnlink(q)
  <2>1. /\ Apart(q) /\ OwnFile(q) /\ UNCHANGED <<goal, cur>>
        /\ pc[q] = "unlink" /\ pc'[q] = "drop" /\ goal[q] \in {"accepted", "rejected"}
        /\ mem'[q].status = goal[q]
        /\ box'[Dir(mem[q].status)][cur[q]] = Absent
        /\ \A d \in Dirs \ {Dir(mem[q].status)} : box'[d] = box[d]
    BY <1>0, <1>3, MoveUnlinkDoes
  <2>2. Dir(mem[q].status) = "pending" /\ cur[q] \in Desk[q]
    BY <1>0, <2>1 DEF Knows, Busy, Dir
  <2>3. Knows(q)'
    BY <2>1, <2>2 DEF Knows, Busy, Planned, Undoing, Exists
  <2>4. Filed'
    BY <1>0, <2>1, <2>2 DEF Filed, OwnFile, Exists
  <2>5. SettledNotOffered'
    BY <1>0, <2>1, <2>2 DEF SettledNotOffered, Found, OwnFile, Exists, Dirs
  <2> QED
    BY <2>1, <2>2, <2>3, <2>4, <2>5, OfferKept
<1>4. CASE WriteProposal(q)
  <2>1. /\ Apart(q) /\ OwnFile(q) /\ pc[q] = "write" /\ pc'[q] = "row"
        /\ Dir(mem[q].status) \in Dirs /\ box'[Dir(mem[q].status)][cur[q]] = mem[q]
        /\ \A d \in Dirs \ {Dir(mem[q].status)} : box'[d] = box[d]
    BY <1>0, <1>4, WriteProposalDoes
  <2>2. cur[q] \in Desk[q] /\ cur[q] \in Proposals
    BY <1>0, <2>1 DEF Knows, Busy, OwnFile
  <2>3. Knows(q)'
    BY <2>1 DEF Knows, Busy, Planned, Undoing
  <2>4. Filed'
    <3> SUFFICES ASSUME NEW d \in Dirs, NEW p \in Proposals, box'[d][p] # Absent
                 PROVE  Dir(box'[d][p].status) = d
                        \/ (d = "accepted" /\ box'[d][p].status = "rolled_back")
      BY DEF Filed, Exists, Dir
    <3>1. CASE d = Dir(mem[q].status) /\ p = cur[q]
      BY <2>1, <3>1
    <3>2. CASE ~(d = Dir(mem[q].status) /\ p = cur[q])
      <4>1. box'[d][p] = box[d][p]
        BY <2>1, <3>2 DEF OwnFile
      <4> QED
        BY <1>0, <4>1 DEF Filed, Exists
    <3> QED
      BY <3>1, <3>2
  <2>5. SettledNotOffered'
    <3> SUFFICES ASSUME NEW p \in Proposals, box'["pending"][p] # Absent,
                        box'["pending"][p].status = "pending"
                 PROVE  box'["accepted"][p] = Absent /\ box'["rejected"][p] = Absent
      BY DEF SettledNotOffered, Found, Inbox, Exists
    <3>1. CASE p # cur[q]
      <4>1. \A d \in Dirs : box'[d][p] = box[d][p]
        BY <2>1, <3>1 DEF OwnFile
      <4> QED
        BY <1>0, <4>1 DEF SettledNotOffered, Found, Inbox, Exists, Dirs
    <3>2. CASE p = cur[q] /\ mem[q].status = "pending"
      BY <1>0, <2>1, <3>2 DEF Knows, Dir, Dirs, Exists
    <3>3. CASE p = cur[q] /\ mem[q].status = "rolled_back"
      BY <2>1, <3>3 DEF Dir
    <3>4. CASE p = cur[q] /\ mem[q].status \in {"accepted", "rejected"}
      BY <1>0, <2>1, <3>4 DEF Knows, Dir, Dirs, Exists
    <3>5. mem[q].status \in Statuses
      BY <1>0 DEF IndInv, TypeOK, Proposal
    <3> QED
      BY <3>1, <3>2, <3>3, <3>4, <3>5 DEF Statuses
  <2> QED
    BY <2>1, <2>2, <2>3, <2>4, <2>5, OfferKept
<1>5. CASE MarkRolledBack(q)
  <2>1. /\ Apart(q) /\ OwnFile(q) /\ pc[q] = "undo" /\ pc'[q] = "row"
        /\ box'["accepted"][cur[q]].status = "rolled_back"
        /\ \A d \in Dirs \ {"accepted"} : box'[d] = box[d]
    BY <1>0, <1>5, MarkRolledBackDoes
  <2>2. cur[q] \in Desk[q] /\ ~Offered(cur[q])
    BY <1>0, <2>1 DEF Knows, Busy, Undoing
  <2>3. Knows(q)'
    BY <2>1 DEF Knows, Busy, Planned, Undoing
  <2>4. Filed'
    BY <1>0, <2>1 DEF Filed, OwnFile, Exists
  <2>5. SettledNotOffered'
    BY <1>0, <2>1, <2>2 DEF SettledNotOffered, Offered, Found, OwnFile, Exists, Dirs
  <2> QED
    BY <2>1, <2>2, <2>3, <2>4, <2>5, OfferKept
<1> QED
  BY <1>1, <1>2, <1>3, <1>4, <1>5, LoadOpOffer, OnwardOffer, Kinds

LEMMA OfferNext == ASSUME OneReviewer, OfferInv, [Next]_vars PROVE OfferInv'
<1>0. IndInv /\ IndInv'
  BY NextInv DEF OfferInv
<1>1. ASSUME NEW q \in Procs, LoadOp(q) \/ Work(q) \/ Start(q) \/ Fault(q) \/ Crash(q)
      PROVE  OfferInv'
  BY <1>0, <1>1, OfferStep
<1>2. CASE UNCHANGED vars
  <2>1. UNCHANGED <<box, pc, goal, cur, mem>>
    BY <1>2 DEF vars, disk, local
  <2>2. \A q \in Procs : Knows(q)'
    BY <2>1 DEF OfferInv, Knows, Exists, Offered, Found
  <2> QED
    BY <1>0, <2>1, <2>2, SameBoxOffers DEF OfferInv
<1> QED
  BY <1>1, <1>2 DEF Next

LEMMA OfferInit == Init => OfferInv
<1> SUFFICES ASSUME Init PROVE OfferInv
  OBVIOUS
<1>1. IndInv
  BY InitInv
<1>2. Filed /\ SettledNotOffered
  BY DEF Init, Filed, SettledNotOffered, Found, Exists, NoRec, Dirs, Dir
<1>3. \A q \in Procs : Knows(q)
  BY DEF Init, Knows, Busy, Planned, Undoing
<1> QED
  BY <1>1, <1>2, <1>3 DEF OfferInv

(* What was accepted or rejected is not offered for review again, through      *)
(* edits, feedback, failures, kills and recoveries of any number of processes, *)
(* when every proposal is reviewed by one of them: two reviewers of the same   *)
(* proposal may each act on what they have read.                               *)
THEOREM SettledStaysOut == ASSUME OneReviewer PROVE Spec => []SettledNotOffered
<1>1. OfferInv => SettledNotOffered
  BY DEF OfferInv
<1>2. OneReviewer /\ OfferInv /\ [Next]_vars => OfferInv'
  BY OfferNext
<1>3. Spec => []OfferInv
  BY OfferInit, <1>2, PTL DEF Spec
<1> QED
  BY <1>1, <1>3, PTL
================================================================================
