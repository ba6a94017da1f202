# Praxile: specifications, model checks and proofs

This directory holds TLA+ models of the parts of Praxile that keep durable state
or hand out a limited resource, the TLC configurations that check them on small
instances and the theorems about them that TLAPS checks. Paths below are relative to
`src/praxile/` unless they say otherwise. `PROJECT.json` maps every definition to the
lines it models.

Praxile runs tasks with a local agent, turns what a run taught into *proposals*, lets a
human accept or reject them, and applies the accepted ones to the assets under
`.praxile/`. Everything is a short-lived Python process (CLI command, gateway worker,
agent run) on one machine; processes meet only in files, in SQLite and in one `flock`.

## 1. Inventory

| Component | State it keeps | Operations | Meets |
|---|---|---|---|
| Proposal store (`store/proposals.py`, `services/proposal_service.py`) | `proposals/{pending,accepted,rejected}/*.json`, asset files, SQLite rows, `cache/proposal-atomic/<id>/` journals | write, edit, accept, reject, rollback, feedback, start-up recovery | other processes through the files and `proposal-apply.lock` |
| File lock (`utils.py`) | a kernel `flock` | acquire for at most five seconds, release | every writer |
| Harness component promotion (`bounded_evolution.py`, `validation_lab.py`, `harness_components.py`) | status, base version and validation of a proposal; `active-manifest.json` and its history | validate in a copy, accept, promote, monitor, rollback | the proposal store, which calls it while the apply lock is held |
| Harness evolution registry (`control_plane/registry.py`, `control_plane/evolution.py`) | candidates, evaluations, active pointers, history in one `registry.json` | register, record_evaluation, promote, rollback | the gates that produce evaluations; the CLI |
| Chat credential broker (`eval/credential_broker.py`, `eval/persistent_chat_budget.py`) | balances, counters, two locks, a revoked flag; one SQLite row shared by processes | chat, reserve, revoke, status | evaluation workers (HTTP), the provider, other brokers through the row |
| Online stream (`eval/online_stream.py`) | a chained ledger of dispatches and results | create, run_next, accept_candidate, reviews | run claim, broker, harness candidates |
| Native run claim (`eval/native_run_claim.py`) | one file per run id | acquire (exclusive), bind, complete, resume | online stream, leases |
| Leases (`eval/lease.py`, `eval/worktree_lease.py`, `eval/harbor_lease.py`, `eval/async_ownership.py`) | owner lock, container or worktree, generation records | prepare, execute, reset, cancel, cleanup, recover | Docker, Git, asyncio cancellation |
| Agent runtime (`runtime.py`, `trajectory.py`, `subtask_reflection.py`) | a run's trajectory in memory, a checkpoint file per task, `trajectories/`, the execution lock | run, resume, ask the model, act, observe, finish, test | model router, tools, whoever asks for a stop, other runs through the lock |
| Gateway run jobs (`gateway.py`) | job status, stop flag, event buffer | start, cancel, stream events | a worker thread per job, which calls the agent runtime |
| Five-arm execution (`eval/five_arm_execution.py`) | plan and receipts | run the arms in order | claims, leases |
| Gates, experiments, lab (`control_plane/gates.py`, `experiments.py`, `lab.py`) | reports | pure decisions over metrics | registry |
| Snapshots, task rollback (`snapshot.py`, `store/tasks.py`) | snapshots, recorded edits | restore what was not modified since | asset files |
| Index, retrieval, graph, memory tree | SQLite tables derived from assets | reindex, search | proposal store |
| Reflection, judges, reward, adapters, traces, CLI, console, document tools | text, reports | transformation and I/O | all of the above |

What is hard, and what makes each part correct:

* **Proposal store.** An accept replaces several files and then moves the proposal; a
  process may fail or be killed between any two writes, and recovery has to decide from
  what it finds. Correct: all or nothing, seen through recovery; only approved text in the
  assets; a settled proposal is not offered again; one accept at a time, and it ends.
* **Component promotion.** Validation takes minutes, reads a version at its start and
  writes its outcome at its end; edits, accepts, rollbacks and the monitor come in
  between; some checks are made before the lock, one after the effect. Correct: only what was
  validated gets into a component, and its activation is on record.
* **Registry.** Serial operations, long legal histories: evaluated twice, promoted again
  after a rollback, versions that recur. Correct: a rollback undoes the last promotion
  that stands, and candidates stand on the version they were evaluated against.
* **Broker.** Threads, processes and crashes around one balance. Correct: nothing is sent
  that was not reserved and committed first, no balance below zero, nothing after
  revocation, and no request slot lost.
* **Agent runtime.** An action's effect on the workspace and its record are two things, and
  a kill can come between them; a stop can come at any step. Correct: nothing that was
  done is forgotten when the model is asked again, a gated task is not touched (it is not:
  section 4), a stop stops, and the execution lock is given back.
* **Run jobs.** A flag and a status, written by two threads. Correct: the final status is
  final, agrees with what is on disk, and comes.
* **Stream, claim, leases.** Effects outside the process that may or may not have happened
  when it died; cancellation racing with progress; a daemon that goes on by itself.
  Correct: no task is executed twice or out of order, no container is off the record or
  taken from a live owner, and what is reported clean after a worker has run is clean.

## 2. Modules

```
ProposalChanges            data: what the changes of a proposal do to files
  ProposalLedger           abstract: accept, reject, roll back; no lock, journal, crash
  ProposalStore            the code; INSTANCE ProposalLedger WITH ... (refinement)
    MCProposalStore        instances           ProposalStoreProofs   theorems
                                               ProposalLedgerProofs  the refinement, proved
HarnessPromotion           validation, promotion, manifest, monitor
    MCHarnessPromotion
    HarnessPromotionProofs
HarnessRegistry            registry.json
  OrderedRegistry          ... with versions that only go up
    MCOrderedRegistry      OrderedRegistryProofs
ChatBroker                 brokers, threads, the shared SQLite budget
    MCChatBroker           ChatBrokerProofs
AgentRuntime               one run or resume per runner, checkpoints, stops, kills
                           AgentRuntimeProofs   theorems
  GatewayJobs              the jobs whose threads call it
    MCGatewayJobs          GatewayJobsProofs
HarborLease                a lease, its resources in docker, its recovery
  OwnedNativeRun           an execution in a lease; the claim of its run id
    OnlineStream           the ledger; INSTANCE SequentialStream WITH ... (refinement)
      MCOnlineStream       OnlineStreamProofs
SequentialStream           abstract: one task after the other, each at most once
```

`HarnessPromotion` composes with the store by abstraction: what `ProposalStore` shows to be
atomic (replacing the files of one accept) is one step there, and what `ProposalStore`
leaves out (validation status, versions, manifest) is its subject. `GatewayJobs` and
`OnlineStream` compose by sharing actions: a step of a job's thread inside
`AgentRuntime.run` is a step of the runtime, a step of a stream's process inside
`run_owned_native` is a step of the run and of its lease.

### ProposalStore

A process is a program counter `pc[q]` with the local variables of `apply_proposal`,
`move_proposal`, `rollback_proposal` and the recovery loop (`cur`, `mem`: the proposal
dict in memory; `plan`, `undo`, `idx`, `todo`). A step is one write another process or a
kill can tell apart: staging, the journal, each `os.replace`, the phase written to the
journal, each index update, unlinking the old proposal file, deleting its row, writing the
new file, inserting its row, removing the transaction directory. A rollback's `write_text` is two
steps, the emptied file (`Truncate`) and the written one; `copy2`, which puts a backup back, is
one: a kill within it leaves the journal, which does it again. `box` are the three
directories, `rows` and `indexed` the SQLite tables, `txn` the journal with its backups.
File contents are sequences of contributions `<<proposal, edition, change>>`, so that the
properties can see whose text a file holds; `append`, `write` and `metadata_update`
("merge") differ as in the code.
`Fault` is an exception at a step inside the try block, `RaiseOut` the handler that follows,
`Crash` a kill (the kernel drops the flock), `Start` the recovery in `initialize()`.
The dict loaded before the lock stays in `mem` and is not read again, as in the code.

`ProposalLedger` is what the store promises: accept changes all files in one step, a
rollback, in whose course a file may be empty, has put every recorded content back by the
time the proposal is marked. The
refinement mapping reads files *through recovery* (`View`): a journalled transaction
without accepted file counts as undone. So the linearization point of an accept is the
write of its accepted file.

### HarnessPromotion

`Version` is the content of the component's files (the code hashes it). A validation is
`LoadValidate`, `StartShadow` (the version check and the write of `shadow_running`) and
`FinishShadow`; an accept is `LoadAccept` (all checks of `apply_proposal` that precede the
lock), `Apply` (or `ApplyTimeout`), `Settle` (move to `accepted/`) and `Promote`, of which the last three
hold the lock; a rollback is `LoadRollback`,
`UndoFiles`, `Demote`, `MarkRolledBack`; the monitor reads the manifest (`LoadMonitor`), may
run a whole rollback, and writes its own copy back (`WriteMonitor`). `write_proposal`'s
refusal of a stale base is modelled in each operation that calls it, including what the
caller has already done by then (`Reject` unlinks first). `validated`, a history variable, collects
the editions a suite has found validated. One step each are the change of an accept with its
journal, and what `promotion_manifest` and the rollback do between reading and writing the
manifest; the monitor's copy, which is older, is not.

### HarnessRegistry, OrderedRegistry

Every operation is one step: `_mutate` reads, changes and replaces `registry.json` under its
lock. The history list is represented by what `rollback` reads of it: for every
candidate, the `previous` of its last promotion. `standing` is a history variable, the stack
of promotions nobody has taken back. `OrderedRegistry` adds the assumption that versions
have a rank that every candidate increases. The code does not enforce it; the acceptance
test uses versions "1", "2", "3". With it the properties are checked and proved, without it
`RollbackRestores` is false (section 4).

### ChatBroker

A caller thread goes through `chat`: `Request`, `TakeFlight` (`_flight.acquire` without
waiting), `Enter` (checks under `_lock`, which stays held), `Begin` and `Commit`
(the immediate SQLite transaction of `PersistentChatBudget.reserve`), `Admit`, `Send`,
`Respond`/`ForwardFails`, `CountResponse`/`CountFailure`, `ReleaseFlight`. A denial at any
point leaves through the `finally` clause (`Deny`). Calls, output tokens and request bytes
are three counters of one kind. `Crash` kills a broker's process: SQLite rolls its open
transaction back, and a new broker with a full allowance of its own opens the same row.
`sent` is a history variable: what has reached the provider for each role.

### AgentRuntime, GatewayJobs

A runner is one call of `AgentRuntime.run`: a job of the gateway, or a command line. `pc[r]` goes
through `run` (`Begin` or `BeginResume` take the execution lock without waiting, `Prepare`, `Load`),
the action loop (`Loop`, `Route`, `Send`, the ways a request ends, `AnswerInvalid`, `AnswerAction`,
`Dispatch`, `ReflectionEnds`, `Observe`, `Contract`) and `_finish_run` (`Verify`, `Test`, `Deliver`,
`Persist`, `Clear`), to `Release` in the `finally` clauses. `Raise` is an exception at any of these
steps, `Kill` the death of a process with every run in it. `run[r]` is what the call has in
memory, `disk[t]` the checkpoint, `recorded[t]` the trajectory file. Of a trajectory the model
keeps what the code's decisions and the properties tell apart: the effects it has
observations of, the number of its actions modulo `checkpoint.every_steps`, whether
`pending_action` is in it, and `dry_run`. A tool has an effect named for its runner and step, or
none; whether the text of an answer, a finish or a contract says one thing or another is a
free choice. `effects` and `late` are history variables. `late` counts the requests of the loop, the
tools and the tests begun after the stop; `Contract` and `Deliver` execute `check_deliverables`
and count too. What it does not count are the requests `_finish_run` makes of judges and of the
evolution (`runtime.py:445`, `460`, `479`), which do not ask for the stop either.

`GatewayJobs` adds `RunJobManager`: `Submit`, `CheckStop` and `SetRunning` (two steps, a stop can come
between them), `RunTask` (a step of the runtime), `Judge` and `Report`, `Fail`, and `Stop`, the request
from another thread, which sets the flag and, depending on what the status is, the
status. Every job carries its `cancel_requested` into the runtime, which polls it.

### HarborLease, OwnedNativeRun, OnlineStream

One process makes one call: `run_owned_native` with a run id (`Claimed`), or `run_next` of the
stream (`Streamers`), which calls it without one. `pc[p]` is what the process does next in
whichever module it is.

`HarborLease`: `phase` is what `ownership.json` says of the lease's generation, `docker` whether
resources with its session label exist, `child` a `docker compose up` under way, or what the
daemon still does of one whose client was killed. `Created` is a step of that child, which ends
neither with its parent nor with a start that failed: it may come after the owner's own
listing or a recovery's has found nothing (`docs/HARBOR_LEASE.zh-CN.md:135-138`). `cancel` and `cleanup` go through the
steps of `_destroy`: Harbor's `stop`, whose errors are swallowed, and the listing that has to be
empty. `recover_lease` is four steps of somebody else under the owner lock.
`OwnedNativeRun`: `status` is the report in memory and `report` the one on file; "interrupted" and
"failed" are one value. `MakeLeaseFails` and `ReportFails` are the errors before the lease is owned
and after it is given up: the claim stays taken, the report says "preparing" or "running". The evidence `complete` and `resume` compare is "as sealed" or changed.
`OnlineStream`: the ledger stands for what `_read` makes of it (`completed`, `pending`, `candidate`,
`valid`); a section under the stream's file lock is one step, with the outcomes that a
failure in it can leave: nothing written, the event written although `_persist` raised
after `os.replace`, the candidate's snapshot left behind without a dispatch. `Settles` is the
second half of `run_next`, `except BaseException` included.

`SequentialStream` is the promise: one task pending at a time, executed at most once, with
the candidate approved at the boundary before it. Its `runs` is mapped to the dispatches of
the processes that have called the worker.

## 3. Runs

| Run | Question | Instance | Result |
|---|---|---|---|
| `store_crash` | Is an accept atomic, whatever fails? | 1 process, 2 proposals with 2 changes each on the same 2 files, 4 operations, 1 edit, 2 kills, 1 exception | holds, 202 000 states |
| `store_accepts` | Are concurrent accepts serial? | 2 processes with disjoint proposals on shared files, 4 operations, 1 exception | holds, 29 000 states |
| `store_races` | What holds when two reviewers race on one proposal? | 2 processes, 1 proposal, 3 operations, start-up, 1 kill, 1 exception | holds, 289 000 states |
| `store_startup_race` | May a process start during an accept? | 2 processes, accept and start | `OnlyApproved` violated |
| `store_rollback_order` | May accepts be rolled back in any order? | 1 process, 2 proposals, 4 operations | `RolledBackGone` violated |
| `harness_promotion` | Does only what was validated get in? | 3 proposals (1 not eligible) over 2 files, 2 processes that both accept, 6 operations, 1 edit, 1 failure | holds, 1 306 000 states |
| `harness_eligibility` | Does acceptance record the activation? | 1 proposal, not eligible | `ActivationRecorded` violated |
| `registry` | Does rollback undo the right promotion? | 5 candidates, 2 keys, 3 versions, stack of 6 | holds, 598 000 states |
| `agent_runs` | Is what an agent did ever forgotten, and can it be stopped? | 1 job, 1 command line with a gated task, 2 steps, 2 routes, 1 test command, checkpoints every 2 actions, 1 kill | holds, 233 000 states |
| `architecture_gate` | Is the architecture gate a hard stop? | 1 gated job, 1 command line that may resume it, 1 kill | `GateHolds` violated |
| `online_stream` | Is every task run once, and cleaned up after? | 3 runners on a stream of 3 tasks and 2 candidates, or 2 processes with one run id whose lease may be recovered | holds, 386 000 states |
| `chat_broker` | Is the shared budget kept through crashes? | 2 brokers, 3 threads, a budget of 3 calls and 5 tokens against 4 calls and 8 tokens allowed, 1 crash | holds, 67 000 states |

Properties:

* `AtomicLedger` (refinement), `OnlyApproved`, `SettledNotOffered`, `RollbackPath`,
  `ApplyExclusive`, `ApplyEnds` (liveness), `TypeOK` for the store. `store_accepts` gives
  each process its own proposals: with two reviewers on one proposal the code loses
  races (both accepts apply, a rejected proposal comes back by a late feedback), so
  `store_races` states what remains true there.
* `PromotedAsValidated` for promotion, with two processes that accept: one also rejects, rolls
  back and fails, the other validates, edits and monitors. It speaks of the edition. Of the base
  a like claim is false in the code, which compares it before the lock
  (`store/proposals.py:135`), and so is one that the manifest names what is in force: the
  monitor and a rollback read and write it with no lock. The run has both, no document
  speaks of either, and no property claims them.
* `RollbackRestores`, `NoRolledBackInForce`, `VersionChain` for the registry.
* `CommitPrecedesAdmission`, `QuotaConserved`, `InflightTruthful`, `NoneAfterRevoke` (action
  property), `FlightReleased` (liveness) for the broker.
* `NothingForgotten` (whenever the model is asked, the trajectory has observed every effect
  there ever was), `EffectsAccounted` (no effect is missing from disk), `StopHeeded` (one
  thing more after a stop, and the last check of the deliverables), `LockReleased` (liveness)
  for the runtime; `StatusTruthful`, `TerminalIsFinal` (action
  property), `JobEnds` (liveness) for the jobs.
* `Traceable`, `RunningHasContainer`, `CleanedIsGone` for leases, `ReuseIsVerified` for the run id,
  `CompletedIsClean` and `Promise` (refinement) for the stream. `CleanedIsGone` is about
  environments a worker has run in. Of one that never became ready a "cleaned" may be wrong,
  and the documents say as much; `Traceable` then says that it is on record and that the lock of a
  dead or closed lease keeps no recovery from it. The intent is
  in `docs/ONLINE_STREAM.zh-CN.md`, `docs/HARBOR_LEASE.zh-CN.md`,
  `docs/OWNED_NATIVE_RUNNER.zh-CN.md` and `docs/RUNTIME_ACTION_RECOVERY.zh-CN.md`.

**Bounds.** `MaxOps`, `MaxEdits`, `MaxCrashes`, `MaxFaults`, `MaxFailures`, `MaxDepth`
bound what a behaviour contains; they appear only as guards of the action they count, so
the model stops where the system would go on, and that is why deadlock is not checked in
the runs with such a bound. Two proposals that share two files are the least for which
order, staleness and partial application can be seen; two kills are the least for a kill
during recovery from a kill; three proposals and six operations give validate and accept
of two candidates at the same time, with an edit, a rejection or the monitor between them.
The two eligible proposals of `harness_promotion` are symmetric. The registry needs a stack of
three, two candidates for one base, and a second key that must not be touched; its run has
no bound on the number of operations, only on the stack, which ordered versions keep
below it anyway. The broker's budget is smaller than what its brokers are allowed
together, so the shared limit is reached before, with and after the local one.

`MaxSteps`, `FailFast`, `Routes`, `Commands` and `EverySteps` are the program's own limits, at 2 (1 test
command): a first and a last step, a checkpoint that is due and one that is skipped, a
fallback route. One kill is enough because a kill leaves nothing but the disk, and the
second runner then starts from it; the proofs have any number. A resume is a command line's,
of the job's task. The job's task has a deliverable contract, the command line's the
architecture gate in shadow mode; the proofs cover the other combinations.
`Together` bounds which processes start at all: three on the stream or two with the run id,
each in one order, since they are alike and the two kinds share nothing but the code.
`Recoverable` is the one lease somebody recovers, `MaxEvents` ends the approvals of candidates,
not the stream. Kills are not bounded: a process is killed once.

**Fairness.** `ProposalStore!FairSpec`: a call that has begun goes on (weak fairness of the
steps of a process, not of starting operations, faults or kills). Nothing in it waits
without bound: the flock times out. `ChatBroker!FairSpec`: weak fairness of the steps of a
request; the flight lock is not waited for, SQLite's lock times out after five seconds,
the provider after `request_timeout`. No fairness is assumed of requests, revocation,
expiry or crashes. `GatewayJobs!GatewayFair`: a job's thread and a run that has begun go on; the
requests, tools and tests in it have timeouts and a loop has `MaxSteps` steps. That a job ends
also needs what the runtime does with a taken lock: it raises at once.
None is assumed of runs in a lease and of the stream, and no liveness is claimed of them: a
`docker compose` has a timeout, but uploads and synchronous setup have none
(`owned_docker_environment.py:3-4`).

## 4. Findings

* `store_startup_race`: `initialize()` of any command restores and deletes the transaction of
  an accept that is running in another process (`store/proposals.py:319-338` takes no lock).
* `store_rollback_order`: a rollback writes the recorded content over whatever is in the
  file, so a later rollback can put rolled back text back (`store/proposals.py:443`).
* `harness_eligibility`: eligibility is refused after the effect (`bounded_evolution.py:143`).
* `architecture_gate`: a gated run that dies after its first checkpoint (`runtime.py:185`) goes on as
  an ordinary one when it is resumed (`runtime.py:296`), where `docs/ARCHITECTURE.md:380-382` calls the
  gate a hard stop until a new explicit task.

Seen while modelling, without a run of its own: where versions lead back, `rollback` takes the
pointer to restore from the last history entry that names the candidate in force
(`control_plane/registry.py:105-108`), which may be the entry of a promotion already rolled
back. With one candidate from v1 to v2 and one from v2 to v1, promoted up, down and up,
two rollbacks are right and the third restores the pointer to "down" instead of the one that the
first promotion replaced (`docs/V2_P1_FROZEN_BOUNDARY.md:68`: "Rollback restores the previous active
pointer"). Promised
by no document: a `subtask_reflect` whose own request is cancelled ends the run with `pending_action`
still in the recorded trajectory (`runtime.py:1111`); a finish whose summary contains
"cancelled" skips the tests (`runtime.py:389`); a kill between `record_trajectory` and
`delete_checkpoint` lets a finished task be resumed and recorded again (`runtime.py:503`); a kill
after a candidate's snapshot and before its dispatch makes `run_next` refuse until another
event changes the snapshot's name (`online_stream.py:339`); an `outcome_unknown` after a completion
that had replaced the file makes the ledger unreadable (`online_stream.py:377`); what a daemon still
does for a killed `docker compose` can create containers after a recovery has found none
(`lease_recover.py:56`); two accepts checked against one base both apply
(`store/proposals.py:135`).

The second and third of the list were also reproduced with the Python code itself. Each is one
trace of its run; the behaviour is in the model because it is in the code.

## 5. Proofs

All assumptions are the named `ASSUME`s of the modules (what kind of value a constant is);
TLC evaluates them in the passing runs.

**`ProposalStoreProofs`**: `TypeCorrect` and `Exclusive` (`ApplyExclusive`), for every number of
processes, proposals, files and changes and every bound. `TypeOK` alone is not inductive: a
step reads `plan[idx]` or `undo[idx]`, and is typed only if the index is in range and the list
is of the kind that the step's goal implies. `AtStep` says so for every program counter;
`IndInv` is `TypeOK`, `AtStep` and `ApplyExclusive`. Exclusion needs `AtStep` too, because a step that
leaves the section (the end of a restore, the failure of a reject) is inside it only for the
goal "accepted".

On the same invariant: `RollbackReady` (`RollbackPath`) for every store, and
`SettledStaysOut` (`SettledNotOffered`) under the premise `OneReviewer`, that no two processes review the
same proposal (`store_crash` and `store_accepts` are such instances; in `store_races` two reviewers
act on what they have both read). `Carries` follows the replaced contents from the plan to the
proposal in memory to `accepted/`; `BoxCovers` adds that a file that says accepted has them
wherever it lies, because feedback writes back what it has read. `Knows` says what a reviewer knows
of the directories when it writes, `Filed` which statuses a directory can hold. `Kinds` splits the steps
into those that end an operation, go on with what the process holds, or touch its own file.

**`ProposalLedgerProofs`**: `AtomicAlone` and `AtomicReviewers` (`AtomicLedger`), `ApprovedAlone` and
`ApprovedReviewers` (`OnlyApproved`): a single process, killed and failing anywhere (the kind of
`store_crash`), and any number of processes that accept, reject, edit and give feedback on their own
proposals but on shared files, failing anywhere (the kind of `store_accepts`). For other combinations,
a recovery or a rollback beside an accept, nothing of the kind is proved, and `store_startup_race`
shows that it is false: `initialize` and `rollback` take no lock (`store/proposals.py:319`, `:443`).

The lemmas `StoreImplementsLedger` and `ApprovedOnly` are the common part. They are not claims about the
code: they assume `Orderly`, that no process recovers or rolls back while another changes assets, which
`OneProcess` and `ReviewersOrderly` then show of the two cases. The refinement maps an asset to what recovery would
make of it, so the ledger accepts at the one step that writes the accepted file, and the proof
is that every other step leaves `View` as it is: `ViewNow` gives `View` of a file while nobody, one
applying process or one recovering process has its transaction open, `SameView` says when two states
look the same. `LedgerInv` adds to `OfferInv`: one transaction is open at a time and its journal is that of
the plan (`Journals`); all changes of a proposal that hit one file have recorded the same former content, so
that the order in which they are put back does not matter (`Records`); somebody will finish or restore
every open transaction (`Minded`); and for each process that applies, undoes or restores, which files
hold the new contents and which the old (`Applies`, `Undoes`, `Restores`; during a rollback all that come
after but the one just emptied, `OthersRestored`). `OnlyApproved` needs an invariant
of the ledger, `Approved`: what `View` or a recorded former content shows comes from proposals that
stand accepted or were rolled back. `AbsentAssumption`, that `Absent` is no proposal and no
transaction, is what the model value is for.

**`OrderedRegistryProofs`**: `TypeCorrect`, `Restores`, `Chained`, `NotInForce`. The strengthening
is `Stands`: each standing candidate is of its key, `previous` of it is the pointer below it, it was
made for the version below, it is not rolled back, and ranks increase along the stack. The
last part is what makes `previous`, one value per candidate, enough: a candidate cannot
stand twice, so no promotion overwrites what a rollback will need.

**`HarnessPromotionProofs`**: `TypeCorrect` and `AppliedAsValidated` (`PromotedAsValidated`), for any number
of proposals, files, edits, failures and processes, each of which may do everything, at once.
`PromotedAsValidated` is not inductive: text gets into a file from a dict in memory, from a journal
and from what an accepted proposal recorded. `IndInv` says of each of these that it is made of editions
a suite has validated (`Files`, `Valid`), of every proposal in a directory or in hand that a validation
it carries is of such an edition, and of a process that accepts that what its checks have seen is still in
its hand (`AtStep`), which is why nothing that is edited meanwhile slips in. That the base is still the
one in force by then is not true (`store/proposals.py:135`) and no part of it.

**`ChatBrokerProofs`**: `TypeCorrect` (no negative balance), `NoneRevoked` (`NoneAfterRevoke`),
`Reported` (`InflightTruthful`), `Kept` (`QuotaConserved`) and `Prepaid` (`CommitPrecedesAdmission`), for
any number of brokers, threads, roles and crashes.
`IndInv` ties every lock to program counters (`FlightHeld`, `LockHeld`, `Writing`), says that the row a
writer has read is the row on disk, and that what `Enter` checked still holds until `Admit`
(`Checked`). `Prepaid` adds `Covered`: sent plus the admitted request on its way is within what the
row has reserved; it assumes that every role is drawn on by one broker at a time, which
is how the evaluation runners name roles. The run has that instance. `Reported` adds `Balanced`: a
broker's balance is 1 when one of its requests is out and 0 otherwise, because `flight` has one
holder at a time. `QuotaConserved` counts the reserved units as a set, one element per role and unit, instead of
folding over the roles: a commit adds as many elements as it takes from what is left, because the
row it writes was computed from the row on disk (`Writing`), and no other step changes the set.

**`AgentRuntimeProofs`**: `Types`, `Remembered` (`NothingForgotten`), `Accounted` (`EffectsAccounted`), `StopsSoon`
(`StopHeeded`) and `Exclusive` (one run at a time), for any number of runners,
processes, steps, routes, commands and kills. None is inductive alone. `IndInv` says who is in
a run by the lock (`LockHeld`), what the counters are worth at each step (`Counted`), that a task
nobody has begun has no effects, checkpoint or record (`NewTask`, `Started`), what a checkpoint
lacks (`OnDisk`: without `pending_action`, nothing), and of every run what it knows, whether it is
dry and what it has checked since the last stop (`InRun`). The heart is `OnDisk` with `Knows`: an
effect is unknown to memory only between `Dispatch` and `Observe`, and that long the checkpoint is
pending, so no resume can start from it.

**`GatewayJobsProofs`**: `Refines` (the gateway's behaviours are the runtime's, so all of the above holds
in it), `Truthful` (`StatusTruthful`) and `Final` (`TerminalIsFinal`). `JobInv` adds to `IndInv` where a job's thread is
when its run is at a given step (`Placed`), and that what `Judge` has read is what is
recorded (`Answered`).

**`OnlineStreamProofs`**: `Types`, `OnRecord` (`Traceable`), `OwnerKeeps` (`RunningHasContainer`), `Recovered`
(`CleanedIsGone`), `Reused` (`ReuseIsVerified`), `Clean` (`CompletedIsClean`) and `Implements` (`Promise`), for any sets of
processes, recoveries, tasks and approvals. The invariant has a part per layer: `LeaseInv`
(program counter, lock, record and resources of a lease), `Runs` and `Claims` (who has run, whose
report the claim is bound to), `Streams` (the process between its dispatch and its completion
is the one the ledger has pending, with the candidate of that time). `Implements` is that
`Init` maps to `Init` and each step to a step or a stutter, by the same invariant.

**Only model-checked:** the liveness properties `ApplyEnds`, `FlightReleased`, `LockReleased` and
`JobEnds` (liveness under fairness is beyond the prover). Every invariant, action property and refinement of
a passing run is a theorem, some under the premises named above.
Where several processes review one proposal, or one recovers beside another, neither `AtomicLedger`
nor `OnlyApproved` is claimed: `store_races` checks what is left, and that is proved without premises.

## 6. Not modelled

* Within the modelled parts: path checks, triage, listing and prefix lookup of proposal
  ids; the snapshot taken before an accept; what the validation suites compute; the HTTP
  layer and payload checks of the broker, its process-local budget (`SharedChatBudget`,
  the same arithmetic under a `threading.Lock`), token counters and latency; a host clock
  that runs backwards (the code denies); migration of old registry files.
* Agent runtime and jobs: what a prompt, an answer or an observation says; the proposals a
  finished run writes; failures of `write_checkpoint` itself (`atomic_write_text`, which
  replaces or leaves the file); chat sessions, whose file two jobs rewrite without a lock
  (`gateway.py:632-664`), and the event stream, which may end before the last status event
  (`gateway.py:237`).
* The requests that `_finish_run` makes of judges and of the evolution, as steps of their own: they are part of
  `Persist`, which may raise. A gated run's tests are modelled (`Verify`, `Test`) and take no part in
  `GateHolds`, which is about actions.
* Reading and writing the manifest in `promotion_manifest` and in a rollback as two steps: with them
  more updates would be lost, and none is claimed to be kept.
* Leases and stream: `reset` (no caller in the runs), the worktree lease, `execute` (evaluators'
  commands), preview, reviews and probes of a stream, which read it; the shared budget of a
  stream, whose protocol is the broker's. Evidence that somebody edits later: `_read` refuses it.
* Text and I/O: reflection, judges, retrieval, adapters, document tools, providers, CLI,
  console, web front end. They have no protocol beyond calling the parts above.
* Planned and not there yet: see below.

## 7. Plan

In this order; the first seven are done.

1. `ProposalStore` with `ProposalLedger`: the heart of the system, most state, most crashes.
2. `HarnessRegistry`: rollback over long histories, proved.
3. `HarnessPromotion`: what the store's harness proposals add.
4. `ChatBroker`: concurrency, crashes, a shared limit.
5. `HarborLease`, `OwnedNativeRun`, `OnlineStream` with `SequentialStream`: dispatch, execution in a
   lease, completion, unknown outcome, recovery after a kill; proved.
6. `AgentRuntime` with `GatewayJobs`: intents, checkpoints, resume, stops; proved.
7. Proofs of `AtomicLedger`, `OnlyApproved` and `QuotaConserved`; done.
8. Five-arm execution: a plan whose cells are owned runs, with receipts, resumed after a kill,
   on top of `OwnedNativeRun`.
9. Decision procedures of `control_plane/gates.py` and `validation_lab._compare` as operators
   checked against a reference definition.
