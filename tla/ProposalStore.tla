---------------------------- MODULE ProposalStore ----------------------------
(* The proposal half of ExperienceStore (store/proposals.py): processes that   *)
(* share one .praxile/ tree load, edit, accept, reject and roll back proposals *)
(* while others start up and recover the transactions a crash left behind.     *)
(* One action per call that reaches the disk, the database or the flock.       *)
EXTENDS ProposalChanges, FiniteSets

CONSTANTS Procs,       \* CLI commands and gateway workers on the same tree
          Desk,        \* [Procs -> SUBSET Proposals]: what each may review
          Ops,         \* the operations processes start
          Seeded,      \* targets that exist before any proposal is accepted
          NoProc,      \* the flock is free
          MaxOps, MaxCrashes, MaxFaults   \* bounds on what a behaviour contains

ASSUME StoreAssumption ==
  /\ NoProc \notin Procs
  /\ Desk \in [Procs -> SUBSET Proposals]
  /\ Ops \subseteq {"accept", "reject", "rollback", "edit", "feedback", "start"}
  /\ Seeded \subseteq Targets

VARIABLES
  files,    \* [Targets -> content]: the governed assets on disk
  indexed,  \* [Targets -> content]: what the SQLite asset rows were built from
  box,      \* proposals/{pending,accepted,rejected}/<id>.json
  rows,     \* [Proposals -> status]: the SQLite proposals table
  txn,      \* [Proposals -> cache/proposal-atomic/<id>]
  lock,     \* holder of the flock on proposal-apply.lock
  pc,       \* [Procs -> next step]
  goal,     \* [Procs -> what the running operation makes of its proposal]
  cur,      \* [Procs -> the proposal, or the transaction directory, in hand]
  mem,      \* [Procs -> the proposal dict the process holds in memory]
  plan,     \* [Procs -> planned changes]
  undo,     \* [Procs -> changes read back from a journal or applied_changes]
  idx,      \* [Procs -> position in plan or undo]
  todo,     \* [Procs -> transaction directories recovery has still to visit]
  spent     \* operations, crashes and faults so far (the bounds)

disk   == <<files, indexed, box, rows, txn>>
local  == <<pc, goal, cur, mem, plan, undo, idx, todo>>
vars   == <<disk, lock, local, spent>>

Dirs == {"pending", "accepted", "rejected"}
Inbox == {"pending"}
NoRec == [status |-> "pending", ed |-> 0, applied |-> <<>>]

(* Where write_proposal and move_proposal put a proposal of a given status.    *)
Dir(status) == IF status \in {"accepted", "rejected"} THEN status ELSE "pending"

(* A transaction directory before its journal is written.                      *)
Bare == [phase |-> "bare", known |-> FALSE, staged |-> TRUE, changes |-> <<>>]

Exists(d, p) == box[d][p] # Absent

Init ==
  /\ files = [t \in Targets |-> IF t \in Seeded THEN <<>> ELSE Absent]
  /\ indexed = files
  /\ box = [d \in Dirs |-> [p \in Proposals |->
              IF d = "pending" THEN NoRec ELSE Absent]]
  /\ rows = [p \in Proposals |-> "pending"]
  /\ txn = [p \in Proposals |-> Absent]
  /\ lock = NoProc
  /\ pc = [q \in Procs |-> "idle"]
  /\ goal = [q \in Procs |-> "none"]
  /\ cur = [q \in Procs |-> Absent]
  /\ mem = [q \in Procs |-> NoRec]
  /\ plan = [q \in Procs |-> <<>>]
  /\ undo = [q \in Procs |-> <<>>]
  /\ idx = [q \in Procs |-> 0]
  /\ todo = [q \in Procs |-> {}]
  /\ spent = [ops |-> 0, crashes |-> 0, faults |-> 0]

Step(q, from, to) == pc[q] = from /\ pc' = [pc EXCEPT ![q] = to]

(* The process forgets what it held: the call returned, raised or was killed.  *)
Leave(q, to) ==
  /\ pc' = [pc EXCEPT ![q] = to]
  /\ goal' = [goal EXCEPT ![q] = "none"]
  /\ cur' = [cur EXCEPT ![q] = Absent]
  /\ mem' = [mem EXCEPT ![q] = NoRec]
  /\ plan' = [plan EXCEPT ![q] = <<>>]
  /\ undo' = [undo EXCEPT ![q] = <<>>]
  /\ idx' = [idx EXCEPT ![q] = 0]
  /\ todo' = [todo EXCEPT ![q] = {}]

Release(q) == lock' = IF lock = q THEN NoProc ELSE lock

Spend(what) == spent' = [spent EXCEPT ![what] = @ + 1]

-------------------------------------------------------------------------------
(* Loading: every operation reads the proposal first and keeps the dict.       *)

(* find_proposal(id, status=...): the first file, in directory order, that has *)
(* the requested status.                                                       *)
Found(p, d, statuses) == Exists(d, p) /\ box[d][p].status \in statuses

Load(q, op, p, rec, to, next) ==
  /\ pc[q] = "idle" /\ op \in Ops /\ p \in Desk[q] /\ spent.ops < MaxOps
  /\ pc' = [pc EXCEPT ![q] = next]
  /\ goal' = [goal EXCEPT ![q] = to]
  /\ cur' = [cur EXCEPT ![q] = p]
  /\ mem' = [mem EXCEPT ![q] = rec]
  /\ Spend("ops")
  /\ UNCHANGED <<disk, lock, plan, todo>>

LoadAccept(q) == \E p \in Proposals :
  /\ Found(p, "pending", Inbox)
  /\ Load(q, "accept", p, box["pending"][p], "accepted", "lock")
  /\ UNCHANGED <<undo, idx>>

LoadReject(q) == \E p \in Proposals :
  /\ Found(p, "pending", Inbox)
  /\ Load(q, "reject", p, box["pending"][p], "rejected", "unlink")
  /\ UNCHANGED <<undo, idx>>

(* ProposalService.edit: a new text, put back in the inbox.                    *)
LoadEdit(q) == \E p \in Proposals :
  /\ Found(p, "pending", Inbox) /\ box["pending"][p].ed < MaxEdits
  /\ Load(q, "edit", p, [box["pending"][p] EXCEPT !.ed = @ + 1], "saved", "write")
  /\ UNCHANGED <<undo, idx>>

(* record_feedback on a proposal: any status, written back as it was read.     *)
LoadFeedback(q) == \E p \in Proposals : \E d \in Dirs :
  /\ Exists(d, p)
  /\ d = "accepted" => ~Exists("pending", p)
  /\ d = "rejected" => ~Exists("pending", p) /\ ~Exists("accepted", p)
  /\ Load(q, "feedback", p, box[d][p], "saved", "write")
  /\ UNCHANGED <<undo, idx>>

LoadRollback(q) == \E p \in Proposals :
  /\ Found(p, "accepted", {"accepted"})
  /\ Load(q, "rollback", p, box["accepted"][p], "rolled_back", "undo")
  /\ undo' = [undo EXCEPT ![q] = box["accepted"][p].applied]
  /\ idx' = [idx EXCEPT ![q] = Len(box["accepted"][p].applied)]

-------------------------------------------------------------------------------
(* apply_proposal: the flock, then _apply_proposal_locked.                     *)

(* Mutant: the flock is taken without looking whether it is held.              *)
AcquireLock_NoWait(q) ==
  /\ Step(q, "lock", "plan")
  /\ lock' = q
  /\ UNCHANGED <<disk, goal, cur, mem, plan, undo, idx, todo, spent>>

AcquireLock(q) ==
  /\ Step(q, "lock", "plan")
  /\ lock = NoProc
  /\ lock' = q
  /\ UNCHANGED <<disk, goal, cur, mem, plan, undo, idx, todo, spent>>

(* file_lock gives up after timeout_seconds while somebody else holds it.      *)
LockTimeout(q) ==
  /\ pc[q] = "lock" /\ lock # NoProc
  /\ Leave(q, "idle")
  /\ UNCHANGED <<disk, lock, spent>>

PlanChanges(q) ==
  /\ Step(q, "plan", "stage")
  /\ plan' = [plan EXCEPT ![q] = PlanOf(cur[q], mem[q].ed, files)]
  /\ UNCHANGED <<disk, lock, goal, cur, mem, undo, idx, todo, spent>>

(* An old directory of the same id is removed, the new contents are staged.    *)
StageChanges(q) ==
  /\ Step(q, "stage", "journal")
  /\ txn' = [txn EXCEPT ![cur[q]] = Bare]
  /\ UNCHANGED <<files, indexed, box, rows, lock, goal, cur, mem, plan, undo, idx,
                 todo, spent>>

(* The backups are copied from the files as they are now, then the journal is  *)
(* written. copy2 raises when the file or the directory has gone.              *)
CanBackUp(q) == \A i \in DOMAIN plan[q] : plan[q][i].before # Absent =>
                   files[plan[q][i].target] # Absent /\ txn[cur[q]] # Absent

WriteJournal(q) ==
  /\ CanBackUp(q)
  /\ Step(q, "journal", "replace")
  /\ txn' = [txn EXCEPT ![cur[q]] =
               [phase |-> "prepared", known |-> TRUE, staged |-> txn[cur[q]] # Absent,
                changes |-> [i \in DOMAIN plan[q] |->
                               [target |-> plan[q][i].target,
                                had    |-> plan[q][i].before # Absent,
                                before |-> IF plan[q][i].before = Absent THEN Absent
                                           ELSE files[plan[q][i].target]]]]]
  /\ idx' = [idx EXCEPT ![q] = 1]
  /\ UNCHANGED <<files, indexed, box, rows, lock, goal, cur, mem, plan, undo, todo,
                 spent>>

JournalFails(q) ==
  /\ ~CanBackUp(q)
  /\ Step(q, "journal", "release")
  /\ UNCHANGED <<disk, lock, goal, cur, mem, plan, undo, idx, todo, spent>>

Staged(q) == txn[cur[q]] # Absent /\ txn[cur[q]].staged

ReplaceTarget(q) ==
  /\ pc[q] = "replace" /\ idx[q] <= Len(plan[q]) /\ Staged(q)
  /\ files' = [files EXCEPT ![plan[q][idx[q]].target] = plan[q][idx[q]].after]
  /\ idx' = [idx EXCEPT ![q] = @ + 1]
  /\ UNCHANGED <<indexed, box, rows, txn, lock, pc, goal, cur, mem, plan, undo, todo,
                 spent>>

(* Mutant: a phase the journal format does not have.                           *)
CommitFiles_OtherPhase(q) ==
  /\ idx[q] > Len(plan[q])
  /\ Step(q, "replace", "index")
  /\ txn' = [txn EXCEPT ![cur[q]] = [Bare EXCEPT !.phase = "committed"]]
  /\ idx' = [idx EXCEPT ![q] = 1]
  /\ UNCHANGED <<files, indexed, box, rows, lock, goal, cur, mem, plan, undo, todo,
                 spent>>

CommitFiles(q) ==
  /\ idx[q] > Len(plan[q])
  /\ Step(q, "replace", "index")
  /\ txn' = [txn EXCEPT ![cur[q]] =
               IF @ = Absent
               THEN [Bare EXCEPT !.phase = "files_committed", !.staged = FALSE]
               ELSE [@ EXCEPT !.phase = "files_committed", !.staged = FALSE]]
  /\ idx' = [idx EXCEPT ![q] = 1]
  /\ UNCHANGED <<files, indexed, box, rows, lock, goal, cur, mem, plan, undo, todo,
                 spent>>

IndexTarget(q) ==
  /\ pc[q] = "index" /\ idx[q] <= Len(plan[q])
  /\ LET t == plan[q][idx[q]].target IN
       indexed' = [indexed EXCEPT ![t] = files[t]]
  /\ idx' = [idx EXCEPT ![q] = @ + 1]
  /\ UNCHANGED <<files, box, rows, txn, lock, pc, goal, cur, mem, plan, undo, todo,
                 spent>>

(* Mutant: the proposal is moved before its applied changes are recorded.      *)
RecordApplied_Late(q) ==
  /\ idx[q] > Len(plan[q])
  /\ Step(q, "index", "unlink")
  /\ UNCHANGED <<disk, lock, goal, cur, mem, plan, undo, idx, todo, spent>>

RecordApplied(q) ==
  /\ idx[q] > Len(plan[q])
  /\ Step(q, "index", "unlink")
  /\ mem' = [mem EXCEPT ![q].applied = Recorded(plan[q])]
  /\ UNCHANGED <<disk, lock, goal, cur, plan, undo, idx, todo, spent>>

(* The transaction directory goes, the flock is released.                      *)
CleanUp(q) ==
  /\ pc[q] = "clean"
  /\ txn' = [txn EXCEPT ![cur[q]] = Absent]
  /\ Release(q)
  /\ Leave(q, "idle")
  /\ UNCHANGED <<files, indexed, box, rows, spent>>

(* Mutant: the failure path forgets the flock.                                 *)
RaiseOut_KeepsLock(q) ==
  /\ pc[q] = "release"
  /\ Leave(q, "idle")
  /\ UNCHANGED <<disk, lock, spent>>

(* The exception leaves apply_proposal through the flock's context manager.    *)
RaiseOut(q) ==
  /\ pc[q] = "release"
  /\ Release(q)
  /\ Leave(q, "idle")
  /\ UNCHANGED <<disk, spent>>
-------------------------------------------------------------------------------
(* move_proposal: unlink the old file, drop the row, write the new file, index *)
(* it. write_proposal on its own (edit, feedback) is the last two steps.       *)

(* Mutant: the inbox file stays.                                               *)
MoveUnlink_Keeps(q) ==
  /\ Step(q, "unlink", "drop")
  /\ mem' = [mem EXCEPT ![q].status = goal[q]]
  /\ UNCHANGED <<disk, lock, goal, cur, plan, undo, idx, todo, spent>>

MoveUnlink(q) ==
  /\ Step(q, "unlink", "drop")
  /\ box' = [box EXCEPT ![Dir(mem[q].status)][cur[q]] = Absent]
  /\ mem' = [mem EXCEPT ![q].status = goal[q]]
  /\ UNCHANGED <<files, indexed, rows, txn, lock, goal, cur, plan, undo, idx, todo,
                 spent>>

MoveDropRow(q) ==
  /\ Step(q, "drop", "write")
  /\ rows' = [rows EXCEPT ![cur[q]] = Absent]
  /\ UNCHANGED <<files, indexed, box, txn, lock, goal, cur, mem, plan, undo, idx,
                 todo, spent>>

WriteProposal(q) ==
  /\ Step(q, "write", "row")
  /\ box' = [box EXCEPT ![Dir(mem[q].status)][cur[q]] = mem[q]]
  /\ UNCHANGED <<files, indexed, rows, txn, lock, goal, cur, mem, plan, undo, idx,
                 todo, spent>>

IndexProposal(q) ==
  /\ pc[q] = "row"
  /\ rows' = [rows EXCEPT ![cur[q]] = mem[q].status]
  /\ IF goal[q] = "accepted"
     THEN /\ pc' = [pc EXCEPT ![q] = "clean"]
          /\ UNCHANGED <<goal, cur, mem, plan, undo, idx, todo>>
     ELSE Leave(q, "idle")
  /\ UNCHANGED <<files, indexed, box, txn, lock, spent>>

-------------------------------------------------------------------------------
(* rollback_proposal: no lock, last change first.                              *)

(* write_text empties the file before it writes it ...                         *)
Truncate(q) ==
  /\ idx[q] > 0
  /\ Step(q, "undo", "rewrite")
  /\ LET c == undo[q][idx[q]] IN
       /\ c.before # Absent
       /\ files' = [files EXCEPT ![c.target] = <<>>]
  /\ UNCHANGED <<indexed, box, rows, txn, lock, goal, cur, mem, plan, undo, idx, todo,
                 spent>>

(* ... and one that was not there before the accept is unlinked at once.       *)
UndoTarget(q) ==
  /\ pc[q] \in {"undo", "rewrite"} /\ idx[q] > 0
  /\ LET c == undo[q][idx[q]] IN
       /\ Step(q, IF c.before = Absent THEN "undo" ELSE "rewrite", "reindex")
       /\ files' = [files EXCEPT ![c.target] = c.before]
  /\ UNCHANGED <<indexed, box, rows, txn, lock, goal, cur, mem, plan, undo, idx, todo,
                 spent>>

UndoIndex(q) ==
  /\ Step(q, "reindex", "undo")
  /\ LET t == undo[q][idx[q]].target IN
       indexed' = [indexed EXCEPT ![t] = files[t]]
  /\ idx' = [idx EXCEPT ![q] = @ - 1]
  /\ UNCHANGED <<files, box, rows, txn, lock, goal, cur, mem, plan, undo, todo, spent>>

(* The mark goes into proposals/accepted/, not through write_proposal.         *)
MarkRolledBack(q) ==
  /\ idx[q] = 0
  /\ Step(q, "undo", "row")
  /\ mem' = [mem EXCEPT ![q].status = "rolled_back"]
  /\ box' = [box EXCEPT !["accepted"][cur[q]] = mem'[q]]
  /\ UNCHANGED <<files, indexed, rows, txn, lock, goal, cur, plan, undo, idx, todo,
                 spent>>

-------------------------------------------------------------------------------
(* _restore_proposal_transaction, from an apply that failed or from recovery.  *)
(* copy2 is one step: a kill within it leaves the journal that does it again.  *)

JournalOf(p) == IF txn[p] = Absent THEN <<>> ELSE txn[p].changes

BeginRestore(q, p, to) ==
  /\ pc' = [pc EXCEPT ![q] = "restore"]
  /\ goal' = [goal EXCEPT ![q] = to]
  /\ cur' = [cur EXCEPT ![q] = p]
  /\ undo' = [undo EXCEPT ![q] = JournalOf(p)]
  /\ idx' = [idx EXCEPT ![q] = Len(JournalOf(p))]

(* Mutant: files the transaction created are left behind.                      *)
RestoreTarget_KeepsCreated(q) ==
  /\ pc[q] = "restore" /\ idx[q] > 0
  /\ LET c == undo[q][idx[q]] IN
       files' = IF c.had THEN [files EXCEPT ![c.target] = c.before] ELSE files
  /\ idx' = [idx EXCEPT ![q] = @ - 1]
  /\ UNCHANGED <<indexed, box, rows, txn, lock, pc, goal, cur, mem, plan, undo, todo,
                 spent>>

(* A backup that has gone with its directory leaves the target as it is.       *)
RestoreTarget(q) ==
  /\ pc[q] = "restore" /\ idx[q] > 0
  /\ LET c == undo[q][idx[q]]
         backups == JournalOf(cur[q])
     IN  files' = IF ~c.had
                  THEN [files EXCEPT ![c.target] = Absent]
                  ELSE IF idx[q] \in DOMAIN backups /\ backups[idx[q]].had
                       THEN [files EXCEPT ![c.target] = backups[idx[q]].before]
                       ELSE files
  /\ idx' = [idx EXCEPT ![q] = @ - 1]
  /\ UNCHANGED <<indexed, box, rows, txn, lock, pc, goal, cur, mem, plan, undo, todo,
                 spent>>

RestoreDone(q) ==
  /\ idx[q] = 0
  /\ Step(q, "restore", IF goal[q] = "recovered" THEN "recover" ELSE "release")
  /\ txn' = [txn EXCEPT ![cur[q]] = Absent]
  /\ UNCHANGED <<files, indexed, box, rows, lock, goal, cur, mem, plan, undo, idx,
                 todo, spent>>

(* A staged file is gone: the replace raises and the files are put back.       *)
ReplaceFails(q) ==
  /\ pc[q] = "replace" /\ idx[q] <= Len(plan[q]) /\ ~Staged(q)
  /\ BeginRestore(q, cur[q], "accepted")
  /\ UNCHANGED <<disk, lock, mem, plan, todo, spent>>

-------------------------------------------------------------------------------
(* initialize(): every command runs _recover_interrupted_proposal_commits      *)
(* first, without the flock.                                                   *)

Start(q) ==
  /\ \/ pc[q] = "down" /\ UNCHANGED spent
     \/ pc[q] = "idle" /\ "start" \in Ops /\ spent.ops < MaxOps /\ Spend("ops")
  /\ pc' = [pc EXCEPT ![q] = "recover"]
  /\ goal' = [goal EXCEPT ![q] = "recovered"]
  /\ todo' = [todo EXCEPT ![q] = {p \in Proposals : txn[p] # Absent}]
  /\ UNCHANGED <<disk, lock, cur, mem, plan, undo, idx>>

(* Mutant: recovery trusts the journal's phase instead of the accepted file.   *)
Committed_ByPhase(p) == txn[p] # Absent /\ txn[p].phase = "files_committed"

Committed(p) == txn[p] # Absent /\ txn[p].known /\ Exists("accepted", p)

DiscardCommitted(q) == \E p \in todo[q] :
  /\ pc[q] = "recover" /\ Committed(p)
  /\ txn' = [txn EXCEPT ![p] = Absent]
  /\ todo' = [todo EXCEPT ![q] = @ \ {p}]
  /\ UNCHANGED <<files, indexed, box, rows, lock, pc, goal, cur, mem, plan, undo, idx,
                 spent>>

RestoreInterrupted(q) == \E p \in todo[q] :
  /\ pc[q] = "recover" /\ ~Committed(p)
  /\ BeginRestore(q, p, "recovered")
  /\ todo' = [todo EXCEPT ![q] = @ \ {p}]
  /\ UNCHANGED <<disk, lock, mem, plan, spent>>

RecoveryDone(q) ==
  /\ pc[q] = "recover" /\ todo[q] = {}
  /\ Leave(q, "idle")
  /\ UNCHANGED <<disk, lock, spent>>

-------------------------------------------------------------------------------
(* Failures.                                                                   *)

(* Where a process runs inside the flock of apply_proposal.                    *)
InApply(q) ==
  \/ pc[q] \in {"plan", "stage", "journal", "replace", "index", "clean", "release"}
  \/ pc[q] \in {"unlink", "drop", "write", "row", "restore"} /\ goal[q] = "accepted"

(* Mutant: a failure after the journal does not put the files back.            *)
Fault_NoRestore(q) ==
  /\ spent.faults < MaxFaults /\ Spend("faults")
  /\ InApply(q)
  /\ pc' = [pc EXCEPT ![q] = "release"]
  /\ UNCHANGED <<disk, lock, goal, cur, mem, plan, undo, idx, todo>>

(* An exception before the journal exists leaves the bare directory behind;    *)
(* while files are replaced, and afterwards as long as the accepted file does  *)
(* not exist, it puts the files back. Elsewhere the operation just stops.      *)
Fault(q) ==
  /\ spent.faults < MaxFaults /\ Spend("faults")
  /\ UNCHANGED <<disk, lock>>
  /\ \/ /\ pc[q] \in {"plan", "stage", "journal"}
        /\ pc' = [pc EXCEPT ![q] = "release"]
        /\ UNCHANGED <<goal, cur, mem, plan, undo, idx, todo>>
     \/ /\ \/ pc[q] = "replace"
           \/ /\ pc[q] \in {"index", "unlink", "drop", "write", "row"}
              /\ goal[q] = "accepted" /\ ~Exists("accepted", cur[q])
        /\ BeginRestore(q, cur[q], "accepted")
        /\ UNCHANGED <<mem, plan, todo>>
     \/ /\ pc[q] \in {"index", "unlink", "drop", "write", "row", "clean"}
        /\ goal[q] = "accepted" /\ Exists("accepted", cur[q])
        /\ pc' = [pc EXCEPT ![q] = "release"]
        /\ UNCHANGED <<goal, cur, mem, plan, undo, idx, todo>>
     \/ /\ pc[q] \in {"unlink", "drop", "write", "row", "undo", "rewrite", "reindex"}
        /\ goal[q] # "accepted"
        /\ Leave(q, "idle")

(* A killed process loses its memory and the kernel drops its flock.           *)
Crash(q) ==
  /\ pc[q] # "down" /\ spent.crashes < MaxCrashes /\ Spend("crashes")
  /\ Release(q)
  /\ Leave(q, "down")
  /\ UNCHANGED disk

-------------------------------------------------------------------------------
LoadOp(q) == LoadAccept(q) \/ LoadReject(q) \/ LoadEdit(q) \/ LoadFeedback(q)
             \/ LoadRollback(q)

ApplyStep(q) == AcquireLock(q) \/ LockTimeout(q) \/ PlanChanges(q)
                \/ StageChanges(q) \/ WriteJournal(q) \/ JournalFails(q)
                \/ ReplaceTarget(q) \/ ReplaceFails(q) \/ CommitFiles(q)
                \/ IndexTarget(q) \/ RecordApplied(q) \/ CleanUp(q) \/ RaiseOut(q)

MoveStep(q) == MoveUnlink(q) \/ MoveDropRow(q) \/ WriteProposal(q)
               \/ IndexProposal(q)

UndoStep(q) == Truncate(q) \/ UndoTarget(q) \/ UndoIndex(q) \/ MarkRolledBack(q)

RecoverStep(q) == RestoreTarget(q) \/ RestoreDone(q) \/ DiscardCommitted(q)
                  \/ RestoreInterrupted(q) \/ RecoveryDone(q)

(* What a running operation does next, without a new request or a failure.     *)
Work(q) == ApplyStep(q) \/ MoveStep(q) \/ UndoStep(q) \/ RecoverStep(q)

Next == \E q \in Procs : LoadOp(q) \/ Work(q) \/ Start(q) \/ Fault(q) \/ Crash(q)

Spec == Init /\ [][Next]_vars

(* A call that has begun keeps running: nothing in it waits without a timeout. *)
FairSpec == Spec /\ \A q \in Procs : WF_vars(Work(q))
-------------------------------------------------------------------------------
(* Properties.                                                                 *)

Phases == {"bare", "prepared", "files_committed"}
Steps == {"down", "idle", "lock", "plan", "stage", "journal", "replace", "index",
          "unlink", "drop", "write", "row", "clean", "release", "undo", "rewrite",
          "reindex", "restore", "recover"}
Goals == {"none", "accepted", "rejected", "rolled_back", "saved", "recovered"}
Statuses == {"pending", "accepted", "rejected", "rolled_back"}

Content == Seq(Proposals \X Nat \X Nat) \cup {Absent}
AppliedChange == [target : Targets, before : Content]
PlannedChange == [target : Targets, before : Content, after : Content]
JournalChange == [target : Targets, had : BOOLEAN, before : Content]
Proposal == [status : Statuses, ed : Nat, applied : Seq(AppliedChange)]
Transaction == [phase : Phases, known : BOOLEAN, staged : BOOLEAN,
                changes : Seq(JournalChange)]

(* A missing file is told from a proposal and from a transaction directory.    *)
ASSUME AbsentAssumption == Absent \notin Proposal \cup Transaction

(* TypeOK: every file, row, proposal and journal is of its kind, and every     *)
(* process is at a step of the code with the values that step reads.           *)
TypeOK ==
  /\ files \in [Targets -> Content] /\ indexed \in [Targets -> Content]
  /\ box \in [Dirs -> [Proposals -> Proposal \cup {Absent}]]
  /\ rows \in [Proposals -> Statuses \cup {Absent}]
  /\ txn \in [Proposals -> Transaction \cup {Absent}]
  /\ lock \in Procs \cup {NoProc}
  /\ pc \in [Procs -> Steps] /\ goal \in [Procs -> Goals]
  /\ cur \in [Procs -> Proposals \cup {Absent}]
  /\ mem \in [Procs -> Proposal]
  /\ plan \in [Procs -> Seq(PlannedChange)]
  /\ undo \in [Procs -> Seq(AppliedChange) \cup Seq(JournalChange)]
  /\ idx \in [Procs -> Nat] /\ todo \in [Procs -> SUBSET Proposals]

(* ApplyExclusive: whoever plans, stages, replaces, indexes or moves a         *)
(* proposal inside apply_proposal holds the flock, and nobody else does.       *)
ApplyExclusive == \A q \in Procs : InApply(q) <=> lock = q

(* What the files would be were every process killed now and recovery run: a   *)
(* journalled transaction whose proposal has no accepted file is put back, its *)
(* first change last.                                                          *)
View ==
  [t \in Targets |->
     LET open == {p \in Proposals : txn[p] # Absent /\ ~Committed(p)
                    /\ \E i \in DOMAIN txn[p].changes : txn[p].changes[i].target = t}
     IN  IF open = {} THEN files[t]
         ELSE LET p == CHOOSE r \in open : TRUE
                  hits == {i \in DOMAIN txn[p].changes : txn[p].changes[i].target = t}
              IN  txn[p].changes[CHOOSE i \in hits : \A j \in hits : i <= j].before]

Standing == [p \in Proposals |->
               IF Exists("accepted", p) THEN box["accepted"][p].status
               ELSE IF Exists("rejected", p) THEN "rejected" ELSE "open"]

Ledger == INSTANCE ProposalLedger WITH
            assets <- View,
            standing <- Standing,
            recorded <- [p \in Proposals |->
                           IF Exists("accepted", p) THEN box["accepted"][p].applied
                                                    ELSE <<>>]

(* AtomicLedger: seen through recovery, every interleaving of steps, failures  *)
(* and crashes accepts, rejects and rolls back proposals as ProposalLedger     *)
(* does: all changes of a proposal at once, at the write of its accepted file. *)
AtomicLedger == Ledger!Spec

AtRest == \A q \in Procs : pc[q] = "idle"

(* OnlyApproved: when nothing runs, no asset holds a contribution of a         *)
(* proposal without an accepted file ("Durable experience assets are written   *)
(* only after proposal approval", docs/ARCHITECTURE.md).                       *)
OnlyApproved == AtRest =>
  \A t \in Targets, p \in Proposals :
     (\E e \in Editions, i \in DOMAIN Changes[p] : Holds(files[t], <<p, e, i>>))
        => Exists("accepted", p)

(* RolledBackGone: when nothing runs, no asset holds a contribution of a       *)
(* proposal that was rolled back ("Accepted proposals ... can be reverted      *)
(* using praxile rollback", docs/SECURITY_MODEL.md).                           *)
RolledBackGone == AtRest =>
  \A t \in Targets, p \in Proposals : Standing[p] = "rolled_back" =>
     \A e \in Editions, i \in DOMAIN Changes[p] : ~Holds(files[t], <<p, e, i>>)

(* SettledNotOffered: an id the inbox still offers for review has neither been *)
(* accepted nor rejected.                                                      *)
SettledNotOffered == \A p \in Proposals :
  Found(p, "pending", Inbox) => ~Exists("accepted", p) /\ ~Exists("rejected", p)

(* RollbackPath: an accepted proposal always carries the contents that every   *)
(* one of its changes replaced, so that rollback_proposal can put them back.   *)
RollbackPath == \A p \in Proposals : Exists("accepted", p) =>
  /\ Len(box["accepted"][p].applied) = Len(Changes[p])
  /\ \A i \in DOMAIN Changes[p] :
        box["accepted"][p].applied[i].target = Changes[p][i].target

(* ApplyEnds: the flock is not kept: whoever holds it lets it go, also when a  *)
(* step of the application raises.                                             *)
ApplyEnds == \A q \in Procs : lock = q ~> lock # q
================================================================================
