----------------------------- MODULE AgentRuntime -----------------------------
(* AgentRuntime.run (runtime.py): one model step, one tool action at a time    *)
(* under the workspace's execution lock, with a checkpoint from which a run    *)
(* that was cut off may be resumed. A fresh run's task is named for its        *)
(* runner, an action's effect on the workspace for the runner and its step.    *)
EXTENDS Integers, FiniteSets

CONSTANTS Runners, Stoppable,  \* callers of run; those that pass cancel_requested
          Processes, Home,     \* [Runners -> Processes]
          Dry,                 \* runners that ask for a dry run
          Bound, Gated,        \* tasks with a deliverable contract; whose analysis
                               \* asks for the architecture gate
          Nobody, None,
          MaxSteps, EverySteps, FailFast,  \* max_steps, checkpoint.every_steps, ...
          Routes,              \* how many model routes chat may try
          Commands,            \* how many test commands a run verifies with
          Enabled, ShadowMode, \* checkpoint.enabled, architecture_gate.shadow_mode
          MaxKills             \* bound on what a behaviour contains

Tasks == Runners
Effects == Runners \X (1..MaxSteps)

ASSUME RuntimeAssumption ==
  /\ Stoppable \subseteq Runners /\ Home \in [Runners -> Processes]
  /\ Dry \subseteq Runners /\ Bound \subseteq Runners /\ Gated \subseteq Runners
  /\ Nobody \notin Runners
  /\ MaxSteps \in Nat /\ EverySteps \in Nat \ {0} /\ FailFast \in Nat \ {0}
  /\ Routes \in Nat \ {0} /\ Commands \in Nat /\ MaxKills \in Nat
  /\ Enabled \in BOOLEAN /\ ShadowMode \in BOOLEAN

VARIABLES
  lock,      \* who holds .praxile/runtime-execution
  pc, run,   \* [Runners -> next step, what the run has in memory]
  disk,      \* [Tasks -> the checkpoint file]
  effects,   \* [Tasks -> what its actions have really done]
  recorded,  \* [Tasks -> the trajectory record_trajectory has written]
  stop,      \* [Runners -> what cancel_requested answers]
  late,      \* [Runners -> the loop's requests, the tools and the tests begun after
             \*  the stop; not what _finish_run asks of judges and of the evolution
             \*  (runtime.py:445, 460, 479)]
  kills

vars == <<lock, pc, run, disk, effects, recorded, stop, late, kills>>

(* The logger's data: the effects it has observations of, how many actions it  *)
(* holds (modulo EverySteps, which is what they are counted for) and whether   *)
(* pending_action is in it; dry_run is kept beside it.                         *)
Trajectory == [known : SUBSET Effects, acts : 0..(EverySteps - 1), pending : BOOLEAN, dry : BOOLEAN]
Statuses == {"completed", "needs_human", "failed", "cancelled"}
Record == [known : SUBSET Effects, status : Statuses]
Actions == {"tool", "finish"}
Run == [task : Tasks, traj : Trajectory, steps : 0..MaxSteps, invalid : 0..(FailFast - 1),
        route : 0..Routes, act : Actions, status : Statuses, cancelled : BOOLEAN,
        tests : 0..Commands]

ASSUME NoneAssumption == None \notin Trajectory /\ None \notin Record

NewTrajectory(r) == [known |-> {}, acts |-> 0, pending |-> FALSE, dry |-> r \in Dry]

NewRun(t, traj) ==
  [task |-> t, traj |-> traj, steps |-> 0, invalid |-> 0, route |-> 0, act |-> "tool",
   status |-> "needs_human", cancelled |-> FALSE, tests |-> 0]

Init ==
  /\ lock = Nobody
  /\ pc = [r \in Runners |-> "idle"]
  /\ run = [r \in Runners |-> NewRun(r, NewTrajectory(r))]
  /\ disk = [t \in Tasks |-> None]
  /\ effects = [t \in Tasks |-> {}]
  /\ recorded = [t \in Tasks |-> None]
  /\ stop = [r \in Runners |-> FALSE]
  /\ late = [r \in Runners |-> 0]
  /\ kills = 0

Step(r, from, to) == pc[r] = from /\ pc' = [pc EXCEPT ![r] = to]
Goto(r, to) == pc' = [pc EXCEPT ![r] = to]
Task(r) == run[r].task
Acted(r) == [run[r].traj EXCEPT !.acts = (@ + 1) % EverySteps]
Keep(r, traj) == run' = [run EXCEPT ![r].traj = traj]

(* _write_checkpoint: without force only every EverySteps actions.             *)
Due(traj, force) == Enabled /\ (force \/ traj.acts = 0)
Save(t, traj, force) ==
  disk' = IF Due(traj, force) THEN [disk EXCEPT ![t] = traj] ELSE disk

(* Something more is begun although the stop has been requested.               *)
Begun(r) == late' = IF stop[r] THEN [late EXCEPT ![r] = @ + 1] ELSE late

(* Nothing of the run's memory is used any more, except for its result.        *)
Forget(r) == run' = [run EXCEPT ![r] = NewRun(r, NewTrajectory(r))]
Result(r) == run' = [run EXCEPT ![r] = [NewRun(r, NewTrajectory(r)) EXCEPT
                                          !.status = run[r].status]]

(* _action_loop returns; the gate's shadow run has its status overwritten.     *)
Leave(r, traj, status, cancelled) ==
  LET shadow == ShadowMode /\ r \in Gated /\ Task(r) = r IN
  /\ Goto(r, "verify")
  /\ run' = [run EXCEPT ![r] = [NewRun(Task(r), traj) EXCEPT
               !.status = IF shadow THEN "needs_human" ELSE status,
               !.cancelled = cancelled /\ ~shadow]]

-------------------------------------------------------------------------------
(* run: file_lock with timeout 0. Whoever finds it taken gets a TimeoutError,  *)
(* before anything of the project has been touched.                            *)
Acquire(r, to) ==
  /\ pc[r] = "idle"
  /\ IF lock = Nobody THEN lock' = r /\ Goto(r, to)
                      ELSE lock' = lock /\ Goto(r, "raised")

Begin(r) ==
  /\ Acquire(r, "prepare")
  /\ UNCHANGED <<run, disk, effects, recorded, stop, late, kills>>

BeginResume(r) == \E t \in Tasks \ {r} :
  /\ r \notin Stoppable
  /\ Acquire(r, "load")
  /\ run' = [run EXCEPT ![r].task = t]
  /\ UNCHANGED <<disk, effects, recorded, stop, late, kills>>

(* The first checkpoint. With the gate there is no loop, or a dry one.         *)
Prepare(r) ==
  /\ pc[r] = "prepare"
  /\ Save(r, run[r].traj, FALSE)
  /\ IF r \notin Gated THEN Goto(r, "loop") /\ UNCHANGED run
     ELSE IF ShadowMode
     THEN Goto(r, "loop") /\ Keep(r, [Acted(r) EXCEPT !.dry = TRUE])
     ELSE Leave(r, Acted(r), "needs_human", FALSE)
  /\ UNCHANGED <<lock, effects, recorded, stop, late, kills>>

(* _resume_run: the checkpoint is refused if it is missing or holds a pending  *)
(* action; the gate is not looked at again.                                    *)
Load(r) ==
  /\ pc[r] = "load"
  /\ IF disk[Task(r)] = None \/ (disk[Task(r)] # None /\ disk[Task(r)].pending)
     THEN Goto(r, "closing") /\ Forget(r)
     ELSE /\ Goto(r, "loop")
          /\ Keep(r, [disk[Task(r)] EXCEPT !.dry = @ \/ run[r].traj.dry])
  /\ UNCHANGED <<lock, disk, effects, recorded, stop, late, kills>>

-------------------------------------------------------------------------------
(* The head of _action_loop's for: the stop is looked at before each request,  *)
(* and the conditions of the experience in use, which may no longer hold. A    *)
(* resumed loop is not entered when the policy on task notes has changed.      *)
Loop(r) ==
  /\ pc[r] = "loop"
  /\ \/ /\ run[r].steps = MaxSteps \/ (run[r].steps = 0 /\ Task(r) # r)
        /\ Leave(r, run[r].traj, "needs_human", FALSE)
        /\ UNCHANGED disk
     \/ /\ run[r].steps < MaxSteps /\ stop[r]
        /\ Save(Task(r), Acted(r), FALSE) /\ Leave(r, Acted(r), "needs_human", TRUE)
     \/ /\ run[r].steps < MaxSteps /\ ~stop[r]
        /\ Save(Task(r), run[r].traj, FALSE)
        /\ Leave(r, run[r].traj, "needs_human", FALSE)
     \/ /\ run[r].steps < MaxSteps /\ ~stop[r]
        /\ Goto(r, "route")
        /\ run' = [run EXCEPT ![r].steps = @ + 1, ![r].route = 1]
        /\ UNCHANGED disk
  /\ UNCHANGED <<lock, effects, recorded, stop, late, kills>>

(* ModelRequestCancelled and ModelUnavailable as _action_loop handles them.    *)
EndedByModel(r, status, cancelled) ==
  Save(Task(r), Acted(r), FALSE) /\ Leave(r, Acted(r), status, cancelled)

(* chat, before each of the routes it may try.                                 *)
Route(r) ==
  /\ pc[r] = "route"
  /\ IF stop[r] THEN EndedByModel(r, "cancelled", TRUE)
                ELSE Goto(r, "send") /\ UNCHANGED <<run, disk>>
  /\ UNCHANGED <<lock, effects, recorded, stop, late, kills>>

(* _provider_chat starts the request in a thread of its own.                   *)
Send(r) ==
  /\ Step(r, "send", "call")
  /\ Begun(r)
  /\ UNCHANGED <<lock, run, disk, effects, recorded, stop, kills>>

(* The poll sees the stop; the transport is closed.                            *)
CallCancelled(r) ==
  /\ pc[r] = "call" /\ stop[r]
  /\ EndedByModel(r, "cancelled", TRUE)
  /\ UNCHANGED <<lock, effects, recorded, stop, late, kills>>

CallUnavailable(r) ==
  /\ pc[r] = "call"
  /\ IF run[r].route < Routes
     THEN Goto(r, "route") /\ run' = [run EXCEPT ![r].route = @ + 1] /\ UNCHANGED disk
     ELSE EndedByModel(r, "needs_human", FALSE)
  /\ UNCHANGED <<lock, effects, recorded, stop, late, kills>>

(* Mutant: one invalid answer more is let pass.                                *)
AnswerInvalid_OffByOne(r) ==
  /\ pc[r] = "call"
  /\ IF run[r].invalid >= FailFast
     THEN Leave(r, Acted(r), "needs_human", FALSE) /\ UNCHANGED disk
     ELSE /\ Goto(r, "loop")
          /\ run' = [run EXCEPT ![r].traj = Acted(r),
                                ![r].invalid = run[r].invalid + 1]
          /\ Save(Task(r), Acted(r), FALSE)
  /\ UNCHANGED <<lock, effects, recorded, stop, late, kills>>

(* Truncated, no JSON action, or not of the action schema.                     *)
AnswerInvalid(r) ==
  /\ pc[r] = "call"
  /\ IF run[r].invalid + 1 >= FailFast
     THEN Leave(r, Acted(r), "needs_human", FALSE) /\ UNCHANGED disk
     ELSE /\ Goto(r, "loop")
          /\ run' = [run EXCEPT ![r].traj = Acted(r),
                                ![r].invalid = run[r].invalid + 1]
          /\ Save(Task(r), Acted(r), FALSE)
  /\ UNCHANGED <<lock, effects, recorded, stop, late, kills>>

(* Mutant: the intent is sampled like the other checkpoints.                   *)
AnswerAction_Sampled(r) == \E act \in Actions :
  LET intent == [run[r].traj EXCEPT !.pending = TRUE] IN
  /\ pc[r] = "call"
  /\ IF stop[r]
     THEN Save(Task(r), Acted(r), FALSE) /\ Leave(r, Acted(r), "needs_human", TRUE)
     ELSE /\ Goto(r, "dispatch")
          /\ run' = [run EXCEPT ![r].traj = intent, ![r].act = act, ![r].invalid = 0]
          /\ Save(Task(r), intent, FALSE)
  /\ UNCHANGED <<lock, effects, recorded, stop, late, kills>>

(* A valid action: the stop is looked at again, then the intent is written,    *)
(* whatever EverySteps says.                                                   *)
AnswerAction(r) == \E act \in Actions :
  LET intent == [run[r].traj EXCEPT !.pending = TRUE] IN
  /\ pc[r] = "call"
  /\ IF stop[r]
     THEN Save(Task(r), Acted(r), FALSE) /\ Leave(r, Acted(r), "needs_human", TRUE)
     ELSE /\ Goto(r, "dispatch")
          /\ run' = [run EXCEPT ![r].traj = intent, ![r].act = act, ![r].invalid = 0]
          /\ Save(Task(r), intent, TRUE)
  /\ UNCHANGED <<lock, effects, recorded, stop, late, kills>>

Blocked(r) == run[r].act = "tool" /\ run[r].traj.dry

(* tools.execute: an edit may do what it says, or part of it, and an action    *)
(* may fail or be refused; a dry run blocks the actions that mutate. The       *)
(* exception that leaves it is Raise.                                          *)
Dispatch(r) ==
  /\ Step(r, "dispatch", "observe")
  /\ \/ /\ run[r].act = "tool" /\ ~Blocked(r)
        /\ effects' = [effects EXCEPT ![Task(r)] = @ \cup {<<r, run[r].steps>>}]
     \/ UNCHANGED effects
  /\ \/ run[r].act = "tool" /\ Begun(r)
     \/ (run[r].act = "finish" \/ Blocked(r)) /\ UNCHANGED late
  /\ UNCHANGED <<lock, run, disk, recorded, stop, kills>>

(* subtask_reflect asks a model too. When that request is cancelled or has no  *)
(* route, the loop ends as if it had been its own: the action stays pending.   *)
ReflectionEnds(r) ==
  /\ pc[r] = "dispatch" /\ run[r].act = "tool"
  /\ \/ stop[r] /\ EndedByModel(r, "cancelled", TRUE)
     \/ EndedByModel(r, "needs_human", FALSE)
  /\ Begun(r) \/ UNCHANGED late
  /\ UNCHANGED <<lock, effects, recorded, stop, kills>>

(* The action with its observation; pending_action is popped.                  *)
Observed(r) == [Acted(r) EXCEPT !.pending = FALSE,
                  !.known = @ \cup (effects[Task(r)] \cap {<<r, run[r].steps>>})]

(* The observation is written before anything else is asked of the model. A    *)
(* finish ends the loop with the model's status; its text decides whether the  *)
(* run counts as cancelled; a contract is checked first.                       *)
Observe(r) ==
  /\ pc[r] = "observe"
  /\ Save(Task(r), Observed(r), TRUE)
  /\ \/ run[r].act = "tool" /\ Goto(r, "loop") /\ Keep(r, Observed(r))
     \/ /\ run[r].act = "finish" /\ Task(r) \in Bound
        /\ Goto(r, "contract") /\ Keep(r, Observed(r))
     \/ /\ run[r].act = "finish"
        /\ \E status \in Statuses \ {"cancelled"}, cancelled \in BOOLEAN :
             /\ status = "completed" => Task(r) \notin Bound
             /\ Leave(r, Observed(r), status, cancelled)
  /\ UNCHANGED <<lock, effects, recorded, stop, late, kills>>

(* deliverable_finish_gate: check_deliverables is executed, stop or no stop.   *)
Contract(r) ==
  /\ pc[r] = "contract"
  /\ Begun(r)
  /\ \/ \E cancelled \in BOOLEAN :
          Leave(r, Acted(r), "completed", cancelled) /\ UNCHANGED disk
     \/ /\ Goto(r, "loop") /\ Keep(r, Acted(r))
        /\ Save(Task(r), Acted(r), FALSE)
  /\ UNCHANGED <<lock, effects, recorded, stop, kills>>
-------------------------------------------------------------------------------
(* The dry_run that _finish_run is given: a shadow run has the caller's.       *)
DryAtEnd(r) == IF r \in Gated /\ Task(r) = r THEN r \in Dry ELSE run[r].traj.dry

(* Mutant: tests.run is not given cancel_requested.                            *)
Verify_NotStopped(r) ==
  /\ pc[r] = "verify"
  /\ IF DryAtEnd(r) \/ run[r].cancelled \/ run[r].tests = Commands
     THEN Goto(r, "deliver")
     ELSE Goto(r, "test")
  /\ UNCHANGED <<lock, run, disk, effects, recorded, stop, late, kills>>

(* _finish_run: the tests, one command after the other.                        *)
Verify(r) ==
  /\ pc[r] = "verify"
  /\ IF DryAtEnd(r) \/ run[r].cancelled \/ run[r].tests = Commands \/ stop[r]
     THEN Goto(r, "deliver")
     ELSE Goto(r, "test")
  /\ UNCHANGED <<lock, run, disk, effects, recorded, stop, late, kills>>

Test(r) ==
  /\ Step(r, "test", "verify")
  /\ run' = [run EXCEPT ![r].tests = @ + 1]
  /\ Begun(r)
  /\ UNCHANGED <<lock, disk, effects, recorded, stop, kills>>

(* The deliverables are checked once more unless the run was cancelled.        *)
Checkable(r) == Task(r) \in Bound /\ (run[r].cancelled => run[r].status = "completed")

(* Mutant: the checkpoint goes before the trajectory is written.               *)
Deliver_ClearsFirst(r) ==
  /\ Step(r, "deliver", "persist")
  /\ \/ Checkable(r) /\ Begun(r)
     \/ ~Checkable(r) /\ UNCHANGED late
  /\ disk' = [disk EXCEPT ![Task(r)] = None]
  /\ UNCHANGED <<lock, run, effects, recorded, stop, kills>>

(* That check decides what counts as completed; the stop is not looked at.     *)
Deliver(r) ==
  /\ Step(r, "deliver", "persist")
  /\ \/ /\ Checkable(r) /\ Begun(r)
        /\ \/ UNCHANGED run
           \/ /\ run[r].status = "completed"
              /\ run' = [run EXCEPT ![r].status = "needs_human"]
     \/ ~Checkable(r) /\ UNCHANGED <<run, late>>
  /\ UNCHANGED <<lock, disk, effects, recorded, stop, kills>>

Persist(r) ==
  /\ Step(r, "persist", "clear")
  /\ recorded' = [recorded EXCEPT ![Task(r)] =
                    [known |-> run[r].traj.known, status |-> run[r].status]]
  /\ UNCHANGED <<lock, run, disk, effects, stop, late, kills>>

(* The proposals are written, then delete_checkpoint.                          *)
Clear(r) ==
  /\ Step(r, "clear", "leaving")
  /\ disk' = [disk EXCEPT ![Task(r)] = None]
  /\ UNCHANGED <<lock, run, effects, recorded, stop, late, kills>>

(* Any other exception, from a write, the model, a tool or the evaluation.     *)
Inside == {"prepare", "load", "loop", "route", "send", "call", "dispatch", "observe",
           "contract", "verify", "test", "deliver", "persist", "clear"}
Raise(r) ==
  /\ pc[r] \in Inside
  /\ Goto(r, "closing") /\ Forget(r)
  /\ UNCHANGED <<lock, disk, effects, recorded, stop, late, kills>>

(* Mutant: the lock is released only on the way out of a run that succeeded.   *)
Release_OnReturn(r) ==
  /\ \/ Step(r, "leaving", "returned") /\ lock' = Nobody /\ Result(r)
     \/ Step(r, "closing", "raised") /\ lock' = lock /\ Forget(r)
  /\ UNCHANGED <<disk, effects, recorded, stop, late, kills>>

(* finally: tools.close, then ownership.close even if that raises.             *)
Release(r) ==
  /\ \/ Step(r, "leaving", "returned") /\ Result(r)
     \/ /\ Step(r, "leaving", "raised") \/ Step(r, "closing", "raised")
        /\ Forget(r)
  /\ lock' = Nobody
  /\ UNCHANGED <<disk, effects, recorded, stop, late, kills>>
-------------------------------------------------------------------------------
(* The caller's cancel_requested turns true and stays so.                      *)
RequestStop(r) ==
  /\ r \in Stoppable
  /\ stop' = [stop EXCEPT ![r] = TRUE]
  /\ UNCHANGED <<lock, pc, run, disk, effects, recorded, late, kills>>

Ended == {"returned", "raised", "killed"}

(* A process is killed with every run in it; the kernel drops its flock.       *)
Kill(p) ==
  /\ kills < MaxKills /\ kills' = kills + 1
  /\ pc' = [r \in Runners |-> IF Home[r] = p /\ pc[r] \notin Ended THEN "killed"
                              ELSE pc[r]]
  /\ lock' = IF lock # Nobody /\ Home[lock] = p THEN Nobody ELSE lock
  /\ run' = [r \in Runners |-> IF Home[r] = p /\ pc[r] \notin Ended
                               THEN NewRun(r, NewTrajectory(r)) ELSE run[r]]
  /\ UNCHANGED <<disk, effects, recorded, stop, late>>

Ask(r) == Loop(r) \/ Route(r) \/ Send(r) \/ CallCancelled(r) \/ CallUnavailable(r)
          \/ AnswerInvalid(r) \/ AnswerAction(r)
Act(r) == Dispatch(r) \/ ReflectionEnds(r) \/ Observe(r) \/ Contract(r)
Finish(r) == Verify(r) \/ Test(r) \/ Deliver(r) \/ Persist(r) \/ Clear(r)

Work(r) == Prepare(r) \/ Load(r) \/ Ask(r) \/ Act(r) \/ Finish(r) \/ Release(r)

Next == \/ \E r \in Runners : Begin(r) \/ BeginResume(r) \/ Work(r) \/ Raise(r)
                              \/ RequestStop(r)
        \/ \E p \in Processes : Kill(p)

Spec == Init /\ [][Next]_vars

(* Model requests, tools and tests have timeouts, the steps are counted.       *)
FairSpec == Spec /\ \A r \in Runners : WF_vars(Work(r))
-------------------------------------------------------------------------------
(* Properties.                                                                 *)

TypeOK ==
  /\ lock \in Runners \cup {Nobody}
  /\ pc \in [Runners -> Inside \cup Ended \cup {"idle", "closing", "leaving"}]
  /\ run \in [Runners -> Run]
  /\ disk \in [Tasks -> Trajectory \cup {None}]
  /\ effects \in [Tasks -> SUBSET Effects]
  /\ recorded \in [Tasks -> Record \cup {None}]
  /\ stop \in [Runners -> BOOLEAN] /\ late \in [Runners -> Nat]
  /\ kills \in 0..MaxKills

(* NothingForgotten: whenever the model is asked what to do next, the          *)
(* trajectory it goes on from has an observation of everything that was done   *)
(* for the task, by this run or an earlier one that was killed or raised: "a   *)
(* crash cannot turn an unknown tool outcome into a silently replayable        *)
(* checkpoint" (runtime.py:1088).                                              *)
NothingForgotten == \A r \in Runners :
  pc[r] \in {"loop", "route", "send", "call"} => run[r].traj.known = effects[Task(r)]

(* EffectsAccounted: with checkpoints on, whatever an action has done can be   *)
(* found on disk at any time: in the trajectory, in the checkpoint, or as the  *)
(* checkpoint's pending action.                                                *)
EffectsAccounted == Enabled => \A t \in Tasks : \A e \in effects[t] :
  \/ recorded[t] # None /\ e \in recorded[t].known
  \/ disk[t] # None /\ (disk[t].pending \/ e \in disk[t].known)

(* GateHolds: once a task has met the architecture gate it "must not continue  *)
(* as an ordinary feature patch" (docs/ARCHITECTURE.md:380): no action is ever *)
(* carried out for it. A run that resumes it does not look at the gate         *)
(* (runtime.py:296), so this is false of the program.                          *)
GateHolds == \A t \in Gated : effects[t] = {}

(* StopHeeded: once the stop is requested, at most one more request, tool or   *)
(* test command is begun, the one that was past its check; for a task with     *)
(* deliverables the final check_deliverables too, which does not ask           *)
(* (runtime.py:428). The judges and the evolution do not ask either, see late. *)
StopHeeded == \A r \in Runners : late[r] <= IF r \in Bound THEN 2 ELSE 1

(* LockReleased: whoever holds the execution lock gives it back.               *)
LockReleased == \A r \in Runners : lock = r ~> lock # r
================================================================================
