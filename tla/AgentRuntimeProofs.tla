-------------------------- MODULE AgentRuntimeProofs --------------------------
(* Theorems of AgentRuntime, for any number of runners, routes and steps.      *)
EXTENDS AgentRuntime, TLAPS

Asking == {"loop", "route", "send", "call"}
Ending == {"verify", "test", "deliver", "persist", "clear"}
InTask == Asking \cup {"dispatch", "observe", "contract"} \cup Ending
Live == Inside \cup {"closing", "leaving"}
Fresh == {"idle", "prepare"}

(* Whoever is in a run holds the lock.                                         *)
LockHeld == \A r \in Runners : lock = r <=> pc[r] \in Live

(* What the counters can be where they are used.                               *)
Counts(r) ==
  /\ pc[r] \in {"route", "send", "call", "dispatch", "observe"} => run[r].steps >= 1
  /\ pc[r] = "test" => run[r].tests < Commands
Counted == \A r \in Runners : Counts(r)

(* A task exists from its runner's first checkpoint on.                        *)
NewTask == \A r \in Runners : pc[r] \in Fresh =>
  /\ run[r] = NewRun(r, NewTrajectory(r))
  /\ effects[r] = {} /\ disk[r] = None /\ recorded[r] = None
Started == \A r \in Runners : pc[r] \in InTask => pc[Task(r)] \notin Fresh

(* On disk: a checkpoint without a pending action knows everything that was    *)
(* done, and when there is no checkpoint the trajectory does.                  *)
OnDisk(t) ==
  /\ disk[t] # None /\ ~disk[t].pending => disk[t].known = effects[t]
  /\ Enabled /\ effects[t] # {} /\ disk[t] = None =>
       recorded[t] # None /\ recorded[t].known = effects[t]
  /\ ~Enabled => disk[t] = None

(* In memory: the run knows everything its task's actions have done, except    *)
(* between an action and its observation; then the checkpoint has the action   *)
(* pending. A run that a reflection has ended may leave one pending too.       *)
Knows(r) ==
  /\ pc[r] \in InTask => (Enabled => disk[Task(r)] # None)
  /\ pc[r] \in Asking \cup {"contract"} =>
       /\ run[r].traj.known = effects[Task(r)] /\ ~run[r].traj.pending
       /\ disk[Task(r)] # None => ~disk[Task(r)].pending
  /\ pc[r] \in Ending => run[r].traj.known = effects[Task(r)]
  /\ pc[r] \in {"dispatch", "observe"} => (Enabled => disk[Task(r)].pending)
  /\ pc[r] = "dispatch" => run[r].traj.known = effects[Task(r)]
  /\ pc[r] = "observe" =>
       /\ run[r].traj.known \subseteq effects[Task(r)]
       /\ effects[Task(r)] \subseteq run[r].traj.known \cup {<<r, run[r].steps>>}
  /\ pc[r] = "clear" => recorded[Task(r)] # None
                        /\ recorded[Task(r)].known = effects[Task(r)]

(* What is begun was begun before the stop, or passed its check before it. The *)
(* last check of the deliverables asks for nothing: Delivered is where a run   *)
(* is once that may have been made.                                            *)
Delivered == {"persist", "clear", "leaving", "closing", "returned", "raised", "killed"}
Checked(r) ==
  /\ ~stop[r] => late[r] = 0
  /\ pc[r] \in {"send", "dispatch", "contract", "test"} => late[r] = 0
  /\ pc[r] = "observe" /\ run[r].act = "finish" => late[r] = 0
  /\ late[r] <= IF pc[r] \in Delivered /\ r \in Bound THEN 2 ELSE 1

(* Whoever can be stopped runs its own task.                                   *)
Own == \A r \in Runners : /\ stop[r] => r \in Stoppable
                          /\ r \in Stoppable => Task(r) = r

InRun(r) == Knows(r) /\ Checked(r)

IndInv ==
  /\ TypeOK /\ LockHeld /\ Counted /\ NewTask /\ Started /\ Own
  /\ \A t \in Tasks : OnDisk(t)
  /\ \A r \in Runners : InRun(r)

USE RuntimeAssumption, NoneAssumption

-------------------------------------------------------------------------------
(* Types.                                                                      *)

PcType == [Runners -> Inside \cup Ended \cup {"idle", "closing", "leaving"}]
DiskType == [Tasks -> Trajectory \cup {None}]

LEMMA NewTyped == ASSUME NEW r \in Runners
                  PROVE  NewTrajectory(r) \in Trajectory
  BY DEF NewTrajectory, Trajectory

LEMMA NewRunTyped == ASSUME NEW t \in Tasks, NEW traj \in Trajectory
                     PROVE  NewRun(t, traj) \in Run
  BY DEF NewRun, Run, Actions, Statuses

LEMMA StatusTyped == ASSUME NEW x \in Run, NEW s \in Statuses, NEW c \in BOOLEAN
                     PROVE  /\ [x EXCEPT !.status = s, !.cancelled = c] \in Run
                            /\ [x EXCEPT !.status = s] \in Run
  BY DEF Run

LEMMA ActedTyped == ASSUME TypeOK, NEW r \in Runners
                    PROVE  Acted(r) \in Trajectory
<1>1. run[r].traj \in Trajectory
  BY DEF TypeOK, Run
<1>2. (run[r].traj.acts + 1) % EverySteps \in 0..(EverySteps - 1)
  BY <1>1 DEF Trajectory
<1> QED
  BY <1>1, <1>2 DEF Acted, Trajectory

LEMMA LeaveTyped ==
  ASSUME TypeOK, NEW r \in Runners, NEW traj \in Trajectory, NEW s \in Statuses,
         NEW c \in BOOLEAN, Leave(r, traj, s, c)
  PROVE  pc' \in PcType /\ run' \in [Runners -> Run]
<1>1. NewRun(Task(r), traj) \in Run
  BY NewRunTyped DEF TypeOK, Task, Run
<1>2. PICK s2 \in Statuses, c2 \in BOOLEAN : run' = [run EXCEPT ![r] =
        [NewRun(Task(r), traj) EXCEPT !.status = s2, !.cancelled = c2]]
  BY DEF Leave, Statuses
<1>3. run' \in [Runners -> Run]
  BY <1>1, <1>2, StatusTyped DEF TypeOK
<1> QED
  BY <1>3 DEF Leave, Goto, TypeOK, PcType, Inside

LEMMA SaveTyped == ASSUME TypeOK, NEW t \in Tasks, NEW traj \in Trajectory,
                          NEW force \in BOOLEAN, Save(t, traj, force)
                   PROVE  disk' \in DiskType
  BY DEF Save, TypeOK, DiskType

LEMMA EndedTyped ==
  ASSUME TypeOK, NEW r \in Runners, NEW s \in Statuses, NEW c \in BOOLEAN,
         EndedByModel(r, s, c)
  PROVE  pc' \in PcType /\ run' \in [Runners -> Run] /\ disk' \in DiskType
<1>1. Acted(r) \in Trajectory /\ Task(r) \in Tasks
  BY ActedTyped DEF TypeOK, Run, Task
<1>2. Leave(r, Acted(r), s, c) /\ Save(Task(r), Acted(r), FALSE)
  BY DEF EndedByModel
<1>3. pc' \in PcType /\ run' \in [Runners -> Run]
  BY <1>1, <1>2, LeaveTyped
<1>4. disk' \in DiskType
  BY <1>1, <1>2, SaveTyped
<1> QED
  BY <1>3, <1>4

LEMMA ForgetTyped == ASSUME TypeOK, NEW r \in Runners, Forget(r)
                     PROVE  run' \in [Runners -> Run]
  BY NewTyped, NewRunTyped DEF Forget, TypeOK, Tasks

LEMMA ResultTyped == ASSUME TypeOK, NEW r \in Runners, Result(r)
                     PROVE  run' \in [Runners -> Run]
<1>1. NewRun(r, NewTrajectory(r)) \in Run
  BY NewTyped, NewRunTyped DEF Tasks
<1>2. run[r].status \in Statuses
  BY DEF TypeOK, Run
<1> QED
  BY <1>1, <1>2, StatusTyped DEF Result, TypeOK

LEMMA BegunTyped == ASSUME TypeOK, NEW r \in Runners, Begun(r)
                    PROVE  late' \in [Runners -> Nat]
  BY DEF Begun, TypeOK

(* Setting one field of what a run has in memory.                              *)
LEMMA SetTraj == ASSUME NEW x \in Run, NEW traj \in Trajectory
                 PROVE  [x EXCEPT !.traj = traj] \in Run
  BY DEF Run
LEMMA SetSteps == ASSUME NEW x \in Run, NEW n \in 0..MaxSteps
                  PROVE  [x EXCEPT !.steps = n] \in Run
  BY DEF Run
LEMMA SetInvalid == ASSUME NEW x \in Run, NEW n \in 0..(FailFast - 1)
                    PROVE  [x EXCEPT !.invalid = n] \in Run
  BY DEF Run
LEMMA SetRoute == ASSUME NEW x \in Run, NEW n \in 0..Routes
                  PROVE  [x EXCEPT !.route = n] \in Run
  BY DEF Run
LEMMA SetAct == ASSUME NEW x \in Run, NEW a \in Actions
                PROVE  [x EXCEPT !.act = a] \in Run
  BY DEF Run
LEMMA SetTests == ASSUME NEW x \in Run, NEW n \in 0..Commands
                  PROVE  [x EXCEPT !.tests = n] \in Run
  BY DEF Run

LEMMA SetDry == ASSUME NEW traj \in Trajectory
                PROVE  [traj EXCEPT !.dry = TRUE] \in Trajectory
  BY DEF Trajectory

LEMMA KeepTyped == ASSUME TypeOK, NEW r \in Runners, NEW traj \in Trajectory,
                          Keep(r, traj)
                   PROVE  run' \in [Runners -> Run]
<1>1. [run[r] EXCEPT !.traj = traj] \in Run
  BY SetTraj DEF TypeOK
<1> QED
  BY <1>1 DEF TypeOK, Keep

LEMMA ObservedTyped == ASSUME TypeOK, Counted, NEW r \in Runners, pc[r] = "observe"
                       PROVE  Observed(r) \in Trajectory
<1>1. Acted(r) \in Trajectory
  BY ActedTyped
<1>2. effects[Task(r)] \in SUBSET Effects
  BY DEF TypeOK, Run, Task
<1> QED
  BY <1>1, <1>2 DEF Observed, Trajectory

LEMMA DiskUnchanged == ASSUME TypeOK, UNCHANGED disk PROVE disk' \in DiskType
  BY DEF TypeOK, DiskType

LEMMA GotoTyped == ASSUME TypeOK, NEW r \in Runners,
                          NEW to \in Inside \cup Ended \cup {"idle", "closing", "leaving"},
                          Goto(r, to)
                   PROVE  pc' \in PcType
  BY DEF Goto, TypeOK, PcType

(* The part of TypeOK that an action of a runner leaves alone.                 *)
LEMMA FrameTyped ==
  ASSUME TypeOK, pc' \in PcType, run' \in [Runners -> Run], disk' \in DiskType,
         late' \in [Runners -> Nat], lock' \in Runners \cup {Nobody},
         UNCHANGED <<effects, recorded, stop, kills>>
  PROVE  TypeOK'
  BY DEF TypeOK, PcType, DiskType

LEMMA TypeAsk == ASSUME TypeOK, Counted, NEW r \in Runners, Ask(r) PROVE TypeOK'
<1> USE DEF PcType, Inside, Statuses
<1>0. /\ run[r] \in Run /\ run[r].traj \in Trajectory /\ Task(r) \in Tasks
      /\ Acted(r) \in Trajectory
  BY ActedTyped DEF TypeOK, Run, Task
<1>1. ASSUME NEW s \in Statuses, NEW c \in BOOLEAN, EndedByModel(r, s, c)
      PROVE  pc' \in PcType /\ run' \in [Runners -> Run] /\ disk' \in DiskType
  BY <1>1, EndedTyped
<1>2. ASSUME Loop(r) PROVE TypeOK'
  <2>1. CASE Leave(r, run[r].traj, "needs_human", FALSE) /\ UNCHANGED disk
    BY <1>0, <1>2, <2>1, LeaveTyped, DiskUnchanged, FrameTyped DEF Loop, TypeOK
  <2>2. CASE Save(Task(r), Acted(r), FALSE) /\ Leave(r, Acted(r), "needs_human", TRUE)
    BY <1>0, <1>2, <2>2, LeaveTyped, SaveTyped, FrameTyped DEF Loop, TypeOK
  <2>3. CASE Save(Task(r), run[r].traj, FALSE)
             /\ Leave(r, run[r].traj, "needs_human", FALSE)
    BY <1>0, <1>2, <2>3, LeaveTyped, SaveTyped, FrameTyped DEF Loop, TypeOK
  <2>4. CASE run[r].steps < MaxSteps /\ Goto(r, "route") /\ UNCHANGED disk
             /\ run' = [run EXCEPT ![r].steps = @ + 1, ![r].route = 1]
    <3> DEFINE x == [[run[r] EXCEPT !.steps = @ + 1] EXCEPT !.route = 1]
    <3>1. x \in Run
      <4>1. run[r].steps + 1 \in 0..MaxSteps
        BY <1>0, <2>4 DEF Run
      <4> DEFINE y == [run[r] EXCEPT !.steps = @ + 1]
      <4>2. y \in Run
        BY <1>0, <4>1, SetSteps
      <4> HIDE DEF y
      <4>3. [y EXCEPT !.route = 1] \in Run
        BY <4>2, SetRoute
      <4> QED
        BY <4>3 DEF y
    <3>2. run' = [run EXCEPT ![r] = x]
      BY <2>4 DEF TypeOK
    <3>3. run' \in [Runners -> Run]
      BY <3>1, <3>2 DEF TypeOK
    <3> QED
      BY <1>2, <2>4, <3>3, GotoTyped, DiskUnchanged, FrameTyped DEF Loop, TypeOK
  <2> QED
    BY <1>2, <2>1, <2>2, <2>3, <2>4 DEF Loop
<1>3. ASSUME Route(r) PROVE TypeOK'
  BY <1>1, <1>3, GotoTyped, DiskUnchanged, FrameTyped DEF Route, TypeOK
<1>4. ASSUME Send(r) PROVE TypeOK'
  BY <1>4, BegunTyped, FrameTyped DEF Send, Step, TypeOK, DiskType
<1>5. ASSUME CallCancelled(r) PROVE TypeOK'
  BY <1>1, <1>5, FrameTyped DEF CallCancelled, TypeOK
<1>6. ASSUME CallUnavailable(r) PROVE TypeOK'
  <2>1. CASE run[r].route < Routes
    <3> DEFINE x == [run[r] EXCEPT !.route = @ + 1]
    <3>1. x \in Run /\ run' = [run EXCEPT ![r] = x]
      BY <1>0, <1>6, <2>1 DEF CallUnavailable, Run
    <3>2. run' \in [Runners -> Run]
      BY <3>1 DEF TypeOK
    <3> QED
      BY <1>6, <2>1, <3>2, GotoTyped, DiskUnchanged, FrameTyped DEF CallUnavailable, TypeOK
  <2>2. CASE ~(run[r].route < Routes)
    BY <1>1, <1>6, <2>2, FrameTyped DEF CallUnavailable, TypeOK
  <2> QED
    BY <2>1, <2>2
<1>7. ASSUME AnswerInvalid(r) PROVE TypeOK'
  <2>1. CASE run[r].invalid + 1 >= FailFast
    BY <1>0, <1>7, <2>1, LeaveTyped, DiskUnchanged, FrameTyped DEF AnswerInvalid, TypeOK
  <2>2. CASE ~(run[r].invalid + 1 >= FailFast)
    <3> DEFINE x == [[run[r] EXCEPT !.traj = Acted(r)]
                      EXCEPT !.invalid = run[r].invalid + 1]
    <3>1. x \in Run
      <4>1. run[r].invalid + 1 \in 0..(FailFast - 1)
        BY <1>0, <2>2 DEF Run
      <4> DEFINE y == [run[r] EXCEPT !.traj = Acted(r)]
      <4>2. y \in Run
        BY <1>0, SetTraj
      <4> HIDE DEF y
      <4>3. [y EXCEPT !.invalid = run[r].invalid + 1] \in Run
        BY <4>1, <4>2, SetInvalid
      <4> QED
        BY <4>3 DEF y
    <3>2. run' = [run EXCEPT ![r] = x]
      <4>1. run' = [run EXCEPT ![r].traj = Acted(r),
                               ![r].invalid = run[r].invalid + 1]
        BY <1>7, <2>2 DEF AnswerInvalid
      <4> QED
        BY <4>1 DEF TypeOK
    <3>3. run' \in [Runners -> Run]
      BY <3>1, <3>2 DEF TypeOK
    <3> QED
      BY <1>0, <1>7, <2>2, <3>3, GotoTyped, SaveTyped, FrameTyped DEF AnswerInvalid, TypeOK
  <2> QED
    BY <2>1, <2>2
<1>8. ASSUME AnswerAction(r) PROVE TypeOK'
  <2>1. CASE stop[r]
    BY <1>0, <1>8, <2>1, LeaveTyped, SaveTyped, FrameTyped DEF AnswerAction, TypeOK
  <2>2. CASE ~stop[r]
    <3> DEFINE intent == [run[r].traj EXCEPT !.pending = TRUE]
    <3>1. PICK act \in Actions :
            run' = [run EXCEPT ![r].traj = intent, ![r].act = act, ![r].invalid = 0]
      BY <1>8, <2>2 DEF AnswerAction
    <3>2. intent \in Trajectory
      BY <1>0 DEF Trajectory
    <3> DEFINE x == [[[run[r] EXCEPT !.traj = intent] EXCEPT !.act = act]
                      EXCEPT !.invalid = 0]
    <3>3. x \in Run
      <4> HIDE DEF intent
      <4>1. [run[r] EXCEPT !.traj = intent] \in Run
        BY <1>0, <3>2, SetTraj
      <4> DEFINE y == [run[r] EXCEPT !.traj = intent]
                 z == [y EXCEPT !.act = act]
      <4> HIDE DEF y
      <4>2. z \in Run
        BY <4>1, SetAct DEF y
      <4> HIDE DEF z
      <4>3. [z EXCEPT !.invalid = 0] \in Run
        BY <4>2, SetInvalid
      <4> QED
        BY <4>3 DEF z, y
    <3>4. run' = [run EXCEPT ![r] = x]
      BY <3>1 DEF TypeOK
    <3>5. run' \in [Runners -> Run]
      BY <3>3, <3>4 DEF TypeOK
    <3>6. Goto(r, "dispatch") /\ Save(Task(r), intent, TRUE)
          /\ UNCHANGED <<lock, effects, recorded, stop, late, kills>>
      BY <1>8, <2>2 DEF AnswerAction
    <3> HIDE DEF intent
    <3> QED
      BY <1>0, <3>2, <3>5, <3>6, GotoTyped, SaveTyped, FrameTyped DEF TypeOK
  <2> QED
    BY <2>1, <2>2
<1> QED
  BY <1>2, <1>3, <1>4, <1>5, <1>6, <1>7, <1>8 DEF Ask

LEMMA TypeAct == ASSUME TypeOK, Counted, NEW r \in Runners, Act(r) PROVE TypeOK'
<1> USE DEF PcType, Inside, Statuses
<1>0. /\ run[r] \in Run /\ run[r].traj \in Trajectory /\ Task(r) \in Tasks
      /\ Acted(r) \in Trajectory
  BY ActedTyped DEF TypeOK, Run, Task
<1>1. ASSUME Dispatch(r) PROVE TypeOK'
  <2>1. pc' \in PcType /\ late' \in [Runners -> Nat]
    BY <1>1, BegunTyped DEF Dispatch, Step, TypeOK
  <2>2. run[r].steps \in 1..MaxSteps
    BY <1>0, <1>1 DEF Dispatch, Step, Counted, Counts, Run
  <2>3. effects' \in [Tasks -> SUBSET Effects]
    BY <1>0, <1>1, <2>2 DEF Dispatch, TypeOK, Effects
  <2> QED
    BY <1>1, <2>1, <2>3 DEF Dispatch, TypeOK
<1>2. ASSUME Observe(r) PROVE TypeOK'
  <2>1. Observed(r) \in Trajectory
    BY <1>2, ObservedTyped DEF Observe
  <2>2. disk' \in DiskType
    BY <1>0, <1>2, <2>1, SaveTyped DEF Observe
  <2>3. CASE Goto(r, "loop") /\ Keep(r, Observed(r))
    BY <1>2, <2>1, <2>2, <2>3, GotoTyped, KeepTyped, FrameTyped DEF Observe, TypeOK
  <2>4. CASE Goto(r, "contract") /\ Keep(r, Observed(r))
    BY <1>2, <2>1, <2>2, <2>4, GotoTyped, KeepTyped, FrameTyped DEF Observe, TypeOK
  <2>5. ASSUME NEW s \in Statuses, NEW c \in BOOLEAN, Leave(r, Observed(r), s, c)
        PROVE TypeOK'
    BY <1>2, <2>1, <2>2, <2>5, LeaveTyped, FrameTyped DEF Observe, TypeOK
  <2> QED
    BY <1>2, <2>3, <2>4, <2>5 DEF Observe
<1>3. ASSUME Contract(r) PROVE TypeOK'
  <2>1. ASSUME NEW c \in BOOLEAN, Leave(r, Acted(r), "completed", c), UNCHANGED disk
        PROVE TypeOK'
    BY <1>0, <1>3, <2>1, LeaveTyped, BegunTyped, DiskUnchanged, FrameTyped
       DEF Contract, TypeOK
  <2>2. CASE Goto(r, "loop") /\ Keep(r, Acted(r)) /\ Save(Task(r), Acted(r), FALSE)
    BY <1>0, <1>3, <2>2, GotoTyped, KeepTyped, SaveTyped, BegunTyped, FrameTyped
       DEF Contract, TypeOK
  <2> QED
    BY <1>3, <2>1, <2>2 DEF Contract
<1>4. ASSUME ReflectionEnds(r) PROVE TypeOK'
  <2>1. PICK s \in Statuses, c \in BOOLEAN : EndedByModel(r, s, c)
    BY <1>4 DEF ReflectionEnds
  <2>2. pc' \in PcType /\ run' \in [Runners -> Run] /\ disk' \in DiskType
    BY <2>1, EndedTyped
  <2>3. late' \in [Runners -> Nat]
    BY <1>4, BegunTyped DEF ReflectionEnds, TypeOK
  <2> QED
    BY <1>4, <2>2, <2>3, FrameTyped DEF ReflectionEnds, TypeOK
<1> QED
  BY <1>1, <1>2, <1>3, <1>4 DEF Act

LEMMA TypeFinish == ASSUME TypeOK, Counted, NEW r \in Runners, Finish(r) PROVE TypeOK'
<1> USE DEF PcType, Inside, Statuses
<1>0. run[r] \in Run /\ Task(r) \in Tasks
  BY DEF TypeOK, Run, Task
<1>1. ASSUME Verify(r) PROVE TypeOK'
  BY <1>1, GotoTyped, DiskUnchanged, FrameTyped DEF Verify, TypeOK
<1>2. ASSUME Test(r) PROVE TypeOK'
  <2>1. run[r].tests + 1 \in 0..Commands
    BY <1>0, <1>2 DEF Test, Step, Counted, Counts, Run
  <2>2. [run[r] EXCEPT !.tests = @ + 1] \in Run
    BY <1>0, <2>1, SetTests
  <2>3. run' \in [Runners -> Run]
    BY <1>2, <2>2 DEF Test, TypeOK
  <2>4. pc' \in PcType
    BY <1>2 DEF Test, Step, TypeOK
  <2> QED
    BY <1>2, <2>3, <2>4, BegunTyped, DiskUnchanged, FrameTyped DEF Test, TypeOK
<1>3. ASSUME Deliver(r) PROVE TypeOK'
  <2>1. [run[r] EXCEPT !.status = "needs_human"] \in Run
    BY <1>0 DEF Run
  <2>2. run' \in [Runners -> Run]
    BY <1>3, <2>1 DEF Deliver, TypeOK
  <2>3. pc' \in PcType /\ late' \in [Runners -> Nat]
    BY <1>3, BegunTyped DEF Deliver, Step, TypeOK
  <2> QED
    BY <1>3, <2>2, <2>3, DiskUnchanged, FrameTyped DEF Deliver, TypeOK
<1>4. ASSUME Persist(r) PROVE TypeOK'
  <2>1. [known |-> run[r].traj.known, status |-> run[r].status] \in Record
    BY <1>0 DEF Run, Record, Trajectory
  <2>2. recorded' \in [Tasks -> Record \cup {None}]
    BY <1>4, <2>1 DEF Persist, TypeOK
  <2>3. pc' \in PcType
    BY <1>4 DEF Persist, Step, TypeOK
  <2> QED
    BY <1>4, <2>2, <2>3 DEF Persist, TypeOK
<1>5. ASSUME Clear(r) PROVE TypeOK'
  <2>1. pc' \in PcType /\ disk' \in DiskType
    BY <1>5 DEF Clear, Step, TypeOK, DiskType
  <2> QED
    BY <1>5, <2>1, FrameTyped DEF Clear, TypeOK
<1> QED
  BY <1>1, <1>2, <1>3, <1>4, <1>5 DEF Finish

LEMMA TypeStep == ASSUME TypeOK, Counted, [Next]_vars PROVE TypeOK'
<1> USE DEF PcType, Inside
<1>1. ASSUME NEW r \in Runners, Begin(r) PROVE TypeOK'
  BY <1>1, GotoTyped, DiskUnchanged, FrameTyped DEF Begin, Acquire, TypeOK, Ended
<1>2. ASSUME NEW r \in Runners, BeginResume(r) PROVE TypeOK'
  <2>1. PICK t \in Tasks : run' = [run EXCEPT ![r].task = t]
    BY <1>2 DEF BeginResume
  <2>2. [run[r] EXCEPT !.task = t] \in Run
    BY DEF TypeOK, Run
  <2>3. run' \in [Runners -> Run]
    BY <2>1, <2>2 DEF TypeOK
  <2> QED
    BY <1>2, <2>3, GotoTyped, DiskUnchanged, FrameTyped
       DEF BeginResume, Acquire, TypeOK, Ended
<1>3. ASSUME NEW r \in Runners, Prepare(r) PROVE TypeOK'
  <2>1. /\ run[r].traj \in Trajectory /\ r \in Tasks
        /\ Acted(r) \in Trajectory /\ [Acted(r) EXCEPT !.dry = TRUE] \in Trajectory
    <3>1. run[r].traj \in Trajectory /\ r \in Tasks
      BY DEF TypeOK, Run, Tasks
    <3>2. Acted(r) \in Trajectory
      BY ActedTyped
    <3> QED
      BY <3>1, <3>2, SetDry
  <2>2. disk' \in DiskType
    BY <1>3, <2>1, SaveTyped DEF Prepare
  <2>3. CASE Goto(r, "loop") /\ UNCHANGED run
    BY <1>3, <2>2, <2>3, GotoTyped, FrameTyped DEF Prepare, TypeOK
  <2>4. CASE Goto(r, "loop") /\ Keep(r, [Acted(r) EXCEPT !.dry = TRUE])
    BY <1>3, <2>1, <2>2, <2>4, GotoTyped, KeepTyped, FrameTyped DEF Prepare, TypeOK
  <2>5. CASE Leave(r, Acted(r), "needs_human", FALSE)
    BY <1>3, <2>1, <2>2, <2>5, LeaveTyped, FrameTyped DEF Prepare, TypeOK, Statuses
  <2> QED
    BY <1>3, <2>3, <2>4, <2>5 DEF Prepare
<1>4. ASSUME NEW r \in Runners, Load(r) PROVE TypeOK'
  <2>1. CASE Goto(r, "closing") /\ Forget(r)
    BY <1>4, <2>1, GotoTyped, ForgetTyped, DiskUnchanged, FrameTyped DEF Load, TypeOK
  <2>2. CASE /\ disk[Task(r)] # None /\ Goto(r, "loop")
             /\ Keep(r, [disk[Task(r)] EXCEPT !.dry = @ \/ run[r].traj.dry])
    <3>1. disk[Task(r)] \in Trajectory /\ run[r].traj.dry \in BOOLEAN
      BY <2>2 DEF TypeOK, Run, Task, Trajectory
    <3>2. [disk[Task(r)] EXCEPT !.dry = @ \/ run[r].traj.dry] \in Trajectory
      BY <3>1 DEF Trajectory
    <3> QED
      BY <1>4, <2>2, <3>2, GotoTyped, KeepTyped, DiskUnchanged, FrameTyped DEF Load, TypeOK
  <2> QED
    BY <1>4, <2>1, <2>2 DEF Load
<1>5. ASSUME NEW r \in Runners, Release(r) PROVE TypeOK'
  <2>1. pc' \in PcType
    BY <1>5 DEF Release, Step, TypeOK, Ended
  <2>2. run' \in [Runners -> Run]
    BY <1>5, ForgetTyped, ResultTyped DEF Release
  <2> QED
    BY <1>5, <2>1, <2>2, DiskUnchanged, FrameTyped DEF Release, TypeOK
<1>6. ASSUME NEW r \in Runners, Raise(r) PROVE TypeOK'
  BY <1>6, GotoTyped, ForgetTyped, DiskUnchanged, FrameTyped DEF Raise, TypeOK
<1>7. ASSUME NEW r \in Runners, RequestStop(r) PROVE TypeOK'
  BY <1>7 DEF RequestStop, TypeOK
<1>8. ASSUME NEW p \in Processes, Kill(p) PROVE TypeOK'
  <2>1. pc' \in PcType
    BY <1>8 DEF Kill, TypeOK, Ended
  <2>2. run' \in [Runners -> Run]
    BY <1>8, NewTyped, NewRunTyped DEF Kill, TypeOK, Tasks
  <2>3. kills' \in 0..MaxKills /\ lock' \in Runners \cup {Nobody}
    BY <1>8 DEF Kill, TypeOK
  <2> QED
    BY <1>8, <2>1, <2>2, <2>3 DEF Kill, TypeOK
<1>9. ASSUME UNCHANGED vars PROVE TypeOK'
  BY <1>9 DEF vars, TypeOK
<1> QED
  BY <1>1, <1>2, <1>3, <1>4, <1>5, <1>6, <1>7, <1>8, <1>9, TypeAsk, TypeAct, TypeFinish
     DEF Next, Work

-------------------------------------------------------------------------------
(* The inductive invariant.                                                    *)

THEOREM InitInv == Init => IndInv
<1> SUFFICES ASSUME Init PROVE IndInv
  OBVIOUS
<1>1. TypeOK
  BY NewTyped, NewRunTyped DEF Init, TypeOK, Tasks
<1>2. NewTask /\ \A t \in Tasks : OnDisk(t)
  BY DEF Init, NewTask, OnDisk, Tasks
<1>3. LockHeld /\ Counted /\ Started /\ Own
  BY DEF Init, LockHeld, Live, Inside, Counted, Started, InTask,
         Asking, Ending, Counts, Own, Task, NewRun
<1>4. ASSUME NEW r \in Runners PROVE InRun(r)
  BY DEF Init, InRun, Knows, Checked, InTask, Asking, Ending
<1> QED
  BY <1>1, <1>2, <1>3, <1>4 DEF IndInv

(* A step of the lock's holder r within its run: it touches nothing of the     *)
(* other runners, nor of the other tasks.                                      *)
Mine(r) ==
  /\ lock' = lock /\ stop' = stop
  /\ pc[r] \in Live /\ pc'[r] \in Live \ {"prepare"}
  /\ \A q \in Runners \ {r} : pc'[q] = pc[q] /\ run'[q] = run[q] /\ late'[q] = late[q]
  /\ \A t \in Tasks \ {Task(r)} :
       disk'[t] = disk[t] /\ effects'[t] = effects[t] /\ recorded'[t] = recorded[t]
  /\ pc'[r] \in InTask =>
       Task(r)' = Task(r) /\ (Task(r) = r \/ pc[Task(r)] \notin Fresh)
  /\ \/ UNCHANGED <<disk, effects, recorded>>
     \/ Task(r) = r \/ pc[Task(r)] \notin Fresh

LEMMA Mutex == ASSUME IndInv, NEW r \in Runners, pc[r] \in Live,
                      NEW q \in Runners \ {r}
               PROVE  pc[q] \notin Live
  BY DEF IndInv, LockHeld

LEMMA MineKeeps ==
  ASSUME IndInv, NEW r \in Runners, Mine(r), TypeOK', Own', Counts(r)', InRun(r)',
         \A t \in Tasks : t = Task(r) => OnDisk(t)'
  PROVE  IndInv'
<1> USE DEF Tasks
<1>1. ASSUME NEW q \in Runners \ {r} PROVE pc[q] \notin Live /\ pc'[q] \notin Live
  BY <1>1, Mutex DEF Mine
<1>2. LockHeld'
  BY <1>1 DEF IndInv, LockHeld, Mine
<1>3. NewTask'
  <2> SUFFICES ASSUME NEW q \in Runners, pc'[q] \in Fresh
               PROVE  /\ run'[q] = NewRun(q, NewTrajectory(q))
                      /\ effects'[q] = {} /\ disk'[q] = None /\ recorded'[q] = None
    BY DEF NewTask
  <2>1. q # r /\ pc[q] = pc'[q] /\ run'[q] = run[q]
    BY DEF Mine, Fresh, Live, Inside
  <2>2. effects'[q] = effects[q] /\ disk'[q] = disk[q] /\ recorded'[q] = recorded[q]
    BY <2>1 DEF Mine
  <2> QED
    BY <2>1, <2>2 DEF IndInv, NewTask
<1>4. Started'
  <2> SUFFICES ASSUME NEW q \in Runners, pc'[q] \in InTask
               PROVE  pc'[Task(q)'] \notin Fresh
    BY DEF Started
  <2>1. q = r
    BY <1>1 DEF InTask, Live, Inside, Asking, Ending
  <2>2. Task(r)' = Task(r) /\ (Task(r) = r \/ pc[Task(r)] \notin Fresh)
    BY <2>1 DEF Mine
  <2>3. Task(r) \in Runners /\ pc'[r] \notin Fresh
    BY DEF Mine, IndInv, TypeOK, Run, Task, Fresh, Live, Inside
  <2> QED
    BY <2>1, <2>2, <2>3 DEF Mine
<1>5. ASSUME NEW t \in Tasks PROVE OnDisk(t)'
  BY <1>5 DEF OnDisk, Mine, IndInv
<1>6. ASSUME NEW q \in Runners PROVE InRun(q)'
  <2>1. CASE q = r
    BY <2>1
  <2>2. CASE q # r
    <3>1. pc'[q] \notin Live /\ late'[q] = late[q] /\ stop'[q] = stop[q]
      BY <1>1, <2>2 DEF Mine
    <3>2. Knows(q)'
      BY <3>1 DEF Knows, Live, Inside, InTask, Asking, Ending
    <3>3. Checked(q)'
      BY <2>2, <3>1 DEF Mine, Checked, IndInv, InRun, Live, Inside
    <3> QED
      BY <3>2, <3>3 DEF InRun
  <2> QED
    BY <2>1, <2>2
<1>7. Counted'
  BY <1>1 DEF Counted, Counts, Live, Inside
<1> QED
  BY <1>2, <1>3, <1>4, <1>5, <1>6, <1>7 DEF IndInv

LEMMA LeaveDoes ==
  ASSUME TypeOK, NEW r \in Runners, NEW traj, NEW s, NEW c, Leave(r, traj, s, c)
  PROVE  /\ pc' = [pc EXCEPT ![r] = "verify"]
         /\ run'[r].traj = traj /\ run'[r].task = Task(r)
         /\ \A q \in Runners \ {r} : run'[q] = run[q]
  BY DEF Leave, Goto, NewRun, TypeOK

(* Asking the model: what the run knows stays, and what is saved is what it    *)
(* has in memory.                                                              *)
AskStep(r) ==
  /\ pc[r] \in Asking
  /\ \A q \in Runners \ {r} : pc'[q] = pc[q] /\ run'[q] = run[q]
  /\ UNCHANGED <<lock, effects, recorded, stop>>
  /\ run'[r].task = run[r].task
  /\ run'[r].traj.known = run[r].traj.known /\ run'[r].traj.dry = run[r].traj.dry
  /\ disk' = disk \/ (Enabled /\ disk' = [disk EXCEPT ![Task(r)] = run'[r].traj])
  /\ \/ /\ pc'[r] \in Asking \cup {"verify"}
        /\ run'[r].traj.pending = run[r].traj.pending
     \/ /\ pc'[r] = "dispatch" /\ run'[r].traj.pending
        /\ Enabled => disk' = [disk EXCEPT ![Task(r)] = run'[r].traj]

LEMMA SaveDoes == ASSUME NEW t, NEW traj, NEW force, Save(t, traj, force)
                  PROVE  disk' = disk \/ (Enabled /\ disk' = [disk EXCEPT ![t] = traj])
  BY DEF Save, Due

LEMMA ActedDoes == ASSUME TypeOK, NEW r \in Runners
                   PROVE  /\ Acted(r).known = run[r].traj.known
                          /\ Acted(r).dry = run[r].traj.dry
                          /\ Acted(r).pending = run[r].traj.pending
<1>1. run[r].traj \in Trajectory
  BY DEF TypeOK, Run
<1> QED
  BY <1>1 DEF Acted, Trajectory

LEMMA AskDoes == ASSUME TypeOK, NEW r \in Runners, Ask(r) PROVE AskStep(r)
<1> USE DEF AskStep, Asking
<1>0. /\ Acted(r).known = run[r].traj.known /\ Acted(r).dry = run[r].traj.dry
      /\ Acted(r).pending = run[r].traj.pending
  BY ActedDoes
<1>1. ASSUME NEW traj \in {run[r].traj, Acted(r)}, NEW s, NEW c, Leave(r, traj, s, c),
             disk' = disk \/ Save(Task(r), traj, FALSE), pc[r] \in Asking,
             UNCHANGED <<lock, effects, recorded, stop>>
      PROVE  AskStep(r)
  <2>1. /\ pc' = [pc EXCEPT ![r] = "verify"]
        /\ run'[r].traj = traj /\ run'[r].task = run[r].task
        /\ \A q \in Runners \ {r} : run'[q] = run[q]
    BY <1>1, LeaveDoes DEF Task
  <2>2. disk' = disk \/ (Enabled /\ disk' = [disk EXCEPT ![Task(r)] = run'[r].traj])
    BY <1>1, <2>1, SaveDoes
  <2> QED
    BY <1>0, <1>1, <2>1, <2>2 DEF TypeOK
<1>2. ASSUME Loop(r) PROVE AskStep(r)
  <2>1. CASE Goto(r, "route") /\ UNCHANGED disk
             /\ run' = [run EXCEPT ![r].steps = @ + 1, ![r].route = 1]
    <3>1. run' = [run EXCEPT ![r] = [[run[r] EXCEPT !.steps = @ + 1] EXCEPT !.route = 1]]
      BY <2>1 DEF TypeOK
    <3>2. /\ run'[r].task = run[r].task /\ run'[r].traj = run[r].traj
          /\ \A q \in Runners \ {r} : run'[q] = run[q]
      BY <3>1 DEF TypeOK, Run
    <3> QED
      BY <1>2, <2>1, <3>2 DEF Loop, Goto, TypeOK
  <2>2. CASE ~ Goto(r, "route")
    BY <1>1, <1>2, <2>2 DEF Loop
  <2>3. CASE Goto(r, "route") /\ (Leave(r, run[r].traj, "needs_human", FALSE)
             \/ Leave(r, Acted(r), "needs_human", TRUE))
    <3>1. Goto(r, "verify")
      BY <2>3 DEF Leave
    <3> QED
      BY <2>3, <3>1 DEF Goto, TypeOK
  <2> QED
    BY <1>2, <2>1, <2>2, <2>3 DEF Loop
<1>3. ASSUME Route(r) PROVE AskStep(r)
  BY <1>1, <1>3 DEF Route, EndedByModel, Goto, TypeOK
<1>4. ASSUME Send(r) PROVE AskStep(r)
  BY <1>4 DEF Send, Step, TypeOK
<1>5. ASSUME CallCancelled(r) PROVE AskStep(r)
  BY <1>1, <1>5 DEF CallCancelled, EndedByModel
<1>6. ASSUME CallUnavailable(r) PROVE AskStep(r)
  <2>1. CASE run[r].route < Routes
    <3>1. run' = [run EXCEPT ![r] = [run[r] EXCEPT !.route = @ + 1]]
      BY <1>6, <2>1 DEF CallUnavailable, TypeOK
    <3>2. /\ run'[r].task = run[r].task /\ run'[r].traj = run[r].traj
          /\ \A q \in Runners \ {r} : run'[q] = run[q]
      BY <3>1 DEF TypeOK, Run
    <3> QED
      BY <1>6, <2>1, <3>2 DEF CallUnavailable, Goto, TypeOK
  <2>2. CASE ~(run[r].route < Routes)
    BY <1>1, <1>6, <2>2 DEF CallUnavailable, EndedByModel
  <2> QED
    BY <2>1, <2>2
<1>7. ASSUME AnswerInvalid(r) PROVE AskStep(r)
  <2>1. CASE run[r].invalid + 1 >= FailFast
    BY <1>1, <1>7, <2>1 DEF AnswerInvalid
  <2>2. CASE ~(run[r].invalid + 1 >= FailFast)
    <3>1. run' = [run EXCEPT ![r].traj = Acted(r), ![r].invalid = run[r].invalid + 1]
      BY <1>7, <2>2 DEF AnswerInvalid
    <3>2. run' = [run EXCEPT ![r] = [[run[r] EXCEPT !.traj = Acted(r)]
                                      EXCEPT !.invalid = run[r].invalid + 1]]
      BY <3>1 DEF TypeOK
    <3>3. /\ run'[r].task = run[r].task /\ run'[r].traj = Acted(r)
          /\ \A q \in Runners \ {r} : run'[q] = run[q]
      BY <3>2 DEF TypeOK, Run
    <3>4. disk' = disk \/ (Enabled /\ disk' = [disk EXCEPT ![Task(r)] = run'[r].traj])
      <4>1. Save(Task(r), Acted(r), FALSE)
        BY <1>7, <2>2 DEF AnswerInvalid
      <4> QED
        BY <3>3, <4>1, SaveDoes
    <3> QED
      BY <1>0, <1>7, <2>2, <3>3, <3>4 DEF AnswerInvalid, Goto, TypeOK
  <2> QED
    BY <2>1, <2>2
<1>8. ASSUME AnswerAction(r) PROVE AskStep(r)
  <2>1. CASE stop[r]
    BY <1>1, <1>8, <2>1 DEF AnswerAction
  <2>2. CASE ~stop[r]
    <3> DEFINE intent == [run[r].traj EXCEPT !.pending = TRUE]
    <3>1. PICK act \in Actions :
            run' = [run EXCEPT ![r].traj = intent, ![r].act = act, ![r].invalid = 0]
      BY <1>8, <2>2 DEF AnswerAction
    <3>2. run[r].traj \in Trajectory
      BY DEF TypeOK, Run
    <3>3. intent.pending /\ intent.known = run[r].traj.known
          /\ intent.dry = run[r].traj.dry
      BY <3>2 DEF Trajectory
    <3>4. Goto(r, "dispatch") /\ Save(Task(r), intent, TRUE)
          /\ UNCHANGED <<lock, effects, recorded, stop, late, kills>>
      BY <1>8, <2>2 DEF AnswerAction
    <3> HIDE DEF intent
    <3>5. run' = [run EXCEPT ![r] = [[[run[r] EXCEPT !.traj = intent] EXCEPT !.act = act]
                                      EXCEPT !.invalid = 0]]
      BY <3>1 DEF TypeOK
    <3>6. /\ run'[r].task = run[r].task /\ run'[r].traj = intent
          /\ \A q \in Runners \ {r} : run'[q] = run[q]
      BY <3>5 DEF TypeOK, Run
    <3>7. IF Enabled THEN disk' = [disk EXCEPT ![Task(r)] = run'[r].traj] ELSE disk' = disk
      BY <3>4, <3>6 DEF Save, Due
    <3> QED
      BY <1>8, <3>3, <3>4, <3>6, <3>7 DEF AnswerAction, Goto, TypeOK
  <2> QED
    BY <2>1, <2>2
<1> QED
  BY <1>2, <1>3, <1>4, <1>5, <1>6, <1>7, <1>8 DEF Ask

(* A runner's task changes only when it resumes one, or is over.               *)
LEMMA TaskKept ==
  ASSUME TypeOK, NEW r \in Runners, Work(r) \/ Raise(r)
  PROVE  /\ run'[r].task \in {run[r].task, r}
         /\ \A q \in Runners \ {r} : run'[q] = run[q]
         /\ stop' = stop
<1> DEFINE P == /\ run'[r].task \in {run[r].task, r}
                /\ \A q \in Runners \ {r} : run'[q] = run[q]
<1>1. ASSUME NEW traj, NEW s, NEW c, Leave(r, traj, s, c) PROVE P
  BY <1>1, LeaveDoes DEF Task
<1>2. ASSUME NEW traj, Keep(r, traj) PROVE P
  BY <1>2 DEF Keep, TypeOK, Run
<1>3. ASSUME Forget(r) \/ Result(r) PROVE P
  BY <1>3 DEF Forget, Result, NewRun, TypeOK
<1>4. ASSUME run' = run PROVE P
  BY <1>4
<1>5. ASSUME Ask(r) PROVE P /\ stop' = stop
  BY <1>5, AskDoes DEF AskStep
<1>6. ASSUME Test(r) \/ Deliver(r) PROVE P
  BY <1>6 DEF Test, Deliver, TypeOK, Run
<1> HIDE DEF P
<1>7. ASSUME Prepare(r) \/ Load(r) \/ Act(r) \/ Release(r) \/ Raise(r) PROVE P
  <2>1. CASE Prepare(r) \/ Load(r)
    BY <1>1, <1>2, <1>3, <1>4, <2>1 DEF Prepare, Load
  <2>2. CASE Act(r)
    BY <1>1, <1>2, <1>4, <2>2
       DEF Act, Dispatch, ReflectionEnds, EndedByModel, Observe, Contract
  <2>3. CASE Release(r) \/ Raise(r)
    BY <1>3, <2>3 DEF Release, Raise
  <2> QED
    BY <1>7, <2>1, <2>2, <2>3
<1>8. ASSUME Finish(r) PROVE P
  BY <1>4, <1>6, <1>8 DEF Finish, Verify, Persist, Clear
<1>9. ASSUME ~Ask(r) PROVE stop' = stop
  BY <1>9 DEF Work, Prepare, Load, Act, Dispatch, ReflectionEnds, Observe, Contract,
              Finish, Verify, Test, Deliver, Persist, Clear, Release, Raise
<1> QED
  BY <1>5, <1>7, <1>8, <1>9 DEF Work, P

LEMMA OwnStep == ASSUME TypeOK, Own, [Next]_vars PROVE Own'
<1> USE DEF Own, Task
<1>1. ASSUME NEW r \in Runners, Work(r) \/ Raise(r) PROVE Own'
  BY <1>1, TaskKept
<1>2. ASSUME NEW r \in Runners, Begin(r) PROVE Own'
  BY <1>2 DEF Begin
<1>3. ASSUME NEW r \in Runners, BeginResume(r) PROVE Own'
  BY <1>3 DEF BeginResume, TypeOK
<1>4. ASSUME NEW r \in Runners, RequestStop(r) PROVE Own'
  BY <1>4 DEF RequestStop, TypeOK
<1>5. ASSUME NEW p \in Processes, Kill(p) PROVE Own'
  BY <1>5 DEF Kill, NewRun
<1>6. CASE UNCHANGED vars
  BY <1>6 DEF vars
<1> QED
  BY <1>1, <1>2, <1>3, <1>4, <1>5, <1>6 DEF Next

(* The counters and the stop, of which AskStep says nothing.                   *)
AskLate(r) == /\ Counts(r)' /\ Checked(r)'
              /\ \A q \in Runners \ {r} : late'[q] = late[q]

LEMMA AskCounts == ASSUME TypeOK, Counted, NEW r \in Runners, Ask(r), Checked(r)
                   PROVE  AskLate(r)
<1> USE DEF AskLate
<1>0. run[r] \in Run /\ pc[r] \in Asking
  BY AskDoes DEF TypeOK, AskStep
<1>1. ASSUME NEW to \in {"verify", "loop"}, pc' = [pc EXCEPT ![r] = to],
             UNCHANGED <<stop, late>>
      PROVE  AskLate(r)
  BY <1>0, <1>1 DEF Counts, Checked, Delivered, Asking, TypeOK
<1>2. ASSUME NEW traj, NEW s, NEW c, Leave(r, traj, s, c), UNCHANGED <<stop, late>>
      PROVE  AskLate(r)
  BY <1>1, <1>2, LeaveDoes
<1>3. ASSUME NEW to \in {"route", "send", "call", "dispatch"},
             pc' = [pc EXCEPT ![r] = to], run'[r].steps >= 1, Checked(r)',
             \A q \in Runners \ {r} : late'[q] = late[q]
      PROVE  AskLate(r)
  BY <1>3 DEF Counts, TypeOK
<1>4. ASSUME Loop(r) PROVE AskLate(r)
  <2>1. CASE Goto(r, "route") /\ run' = [run EXCEPT ![r].steps = @ + 1, ![r].route = 1]
    <3>1. run' = [run EXCEPT ![r] = [[run[r] EXCEPT !.steps = @ + 1] EXCEPT !.route = 1]]
      BY <2>1 DEF TypeOK
    <3>2. run'[r].steps = run[r].steps + 1 /\ run[r].steps \in 0..MaxSteps
      BY <1>0, <3>1 DEF TypeOK, Run
    <3>3. run'[r].steps >= 1 /\ UNCHANGED <<stop, late>>
      BY <1>4, <3>2 DEF Loop
    <3>4. pc' = [pc EXCEPT ![r] = "route"] /\ Checked(r)'
      BY <1>0, <2>1, <3>3 DEF Goto, Checked, Delivered, Asking, TypeOK
    <3> QED
      BY <1>3, <3>3, <3>4
  <2> QED
    BY <1>2, <1>4, <2>1 DEF Loop
<1>5. ASSUME Route(r) PROVE AskLate(r)
  <2>1. CASE stop[r]
    BY <1>2, <1>5, <2>1 DEF Route, EndedByModel
  <2>2. CASE ~stop[r]
    <3>1. pc' = [pc EXCEPT ![r] = "send"] /\ UNCHANGED <<run, stop, late>>
      BY <1>5, <2>2 DEF Route, Goto
    <3>2. run'[r].steps >= 1 /\ Checked(r)'
      BY <1>5, <2>2, <3>1 DEF Route, Counted, Counts, Checked
    <3> QED
      BY <1>3, <3>1, <3>2
  <2> QED
    BY <2>1, <2>2
<1>6. ASSUME Send(r) PROVE AskLate(r)
  <2>1. pc' = [pc EXCEPT ![r] = "call"] /\ UNCHANGED <<run, stop>> /\ late[r] = 0
    BY <1>6 DEF Send, Step, Checked
  <2>2. run'[r].steps >= 1
    BY <1>6, <2>1 DEF Send, Step, Counted, Counts
  <2>3. \A q \in Runners \ {r} : late'[q] = late[q]
    BY <1>6 DEF Send, Begun, TypeOK
  <2>4. late'[r] = IF stop[r] THEN 1 ELSE 0
    BY <1>6, <2>1 DEF Send, Begun, TypeOK
  <2>5. Checked(r)'
    BY <2>1, <2>4 DEF Checked, TypeOK
  <2> QED
    BY <1>3, <2>1, <2>2, <2>3, <2>5
<1>7. ASSUME CallCancelled(r) PROVE AskLate(r)
  BY <1>2, <1>7 DEF CallCancelled, EndedByModel
<1>8. ASSUME CallUnavailable(r) PROVE AskLate(r)
  <2>1. CASE run[r].route < Routes
    <3>1. run' = [run EXCEPT ![r] = [run[r] EXCEPT !.route = @ + 1]]
      BY <1>8, <2>1 DEF CallUnavailable, TypeOK
    <3>2. run'[r].steps >= 1
      BY <1>0, <1>8, <3>1 DEF CallUnavailable, Counted, Counts, TypeOK, Run
    <3>3. pc' = [pc EXCEPT ![r] = "route"] /\ UNCHANGED <<stop, late>>
      BY <1>8, <2>1 DEF CallUnavailable, Goto
    <3>4. Checked(r)'
      BY <1>0, <3>3 DEF Checked, Delivered, Asking, TypeOK
    <3> QED
      BY <1>3, <3>2, <3>3, <3>4
  <2>2. CASE ~(run[r].route < Routes)
    BY <1>2, <1>8, <2>2 DEF CallUnavailable, EndedByModel
  <2> QED
    BY <2>1, <2>2
<1>9. ASSUME AnswerInvalid(r) PROVE AskLate(r)
  BY <1>1, <1>2, <1>9 DEF AnswerInvalid, Goto
<1>10. ASSUME AnswerAction(r) PROVE AskLate(r)
  <2>1. CASE stop[r]
    BY <1>2, <1>10, <2>1 DEF AnswerAction
  <2>2. CASE ~stop[r]
    <3> DEFINE intent == [run[r].traj EXCEPT !.pending = TRUE]
    <3>1. PICK act \in Actions :
            run' = [run EXCEPT ![r].traj = intent, ![r].act = act, ![r].invalid = 0]
      BY <1>10, <2>2 DEF AnswerAction
    <3>2. pc' = [pc EXCEPT ![r] = "dispatch"] /\ UNCHANGED <<stop, late>>
      BY <1>10, <2>2 DEF AnswerAction, Goto
    <3> HIDE DEF intent
    <3>3. run' = [run EXCEPT ![r] = [[[run[r] EXCEPT !.traj = intent] EXCEPT !.act = act]
                                      EXCEPT !.invalid = 0]]
      BY <3>1 DEF TypeOK
    <3>4. run'[r].steps = run[r].steps
      BY <1>0, <3>3 DEF TypeOK, Run
    <3>5. run'[r].steps >= 1 /\ Checked(r)'
      BY <1>10, <2>2, <3>2, <3>4 DEF AnswerAction, Counted, Counts, Checked
    <3> QED
      BY <1>3, <3>2, <3>5
  <2> QED
    BY <2>1, <2>2
<1> QED
  BY <1>4, <1>5, <1>6, <1>7, <1>8, <1>9, <1>10 DEF Ask

LEMMA AskInv == ASSUME IndInv, TypeOK', Own', NEW r \in Runners, Ask(r) PROVE IndInv'
<1>1. AskStep(r)
  BY AskDoes DEF IndInv
<1>2. AskLate(r)
  BY AskCounts DEF IndInv, InRun
<1> PICK t \in Tasks : t = Task(r)
  BY DEF IndInv, TypeOK, Run, Task
<1>3. t \in Runners /\ Task(r)' = t
  BY <1>1 DEF Task, AskStep, Tasks
<1>4. pc[r] \in InTask /\ pc[t] \notin Fresh
  BY <1>1 DEF IndInv, Started, AskStep, InTask
<1>5. Mine(r)
  BY <1>1, <1>2, <1>3, <1>4
     DEF Mine, AskStep, AskLate, Live, Inside, Asking, IndInv, TypeOK
<1>6. /\ run[r].traj.known = effects[t] /\ ~run[r].traj.pending
      /\ Enabled => disk[t] # None /\ ~disk[t].pending
      /\ ~Enabled => disk[t] = None
      /\ disk[t] # None => ~disk[t].pending
  BY <1>1, <1>4 DEF AskStep, IndInv, InRun, Knows, OnDisk
<1>7. /\ run'[r].traj.known = effects'[t] /\ effects'[t] = effects[t]
      /\ recorded'[t] = recorded[t] /\ run'[r].traj # None
  BY <1>1, <1>6 DEF AskStep, TypeOK, Run
<1>8. disk'[t] = disk[t] \/ (Enabled /\ disk'[t] = run'[r].traj)
  BY <1>1 DEF AskStep, IndInv, TypeOK
<1>9. OnDisk(t)'
  BY <1>6, <1>7, <1>8 DEF IndInv, OnDisk
<1>10. Knows(r)'
  <2>1. CASE pc'[r] \in Asking \cup {"verify"} /\ run'[r].traj.pending = run[r].traj.pending
    BY <1>3, <1>6, <1>7, <1>8, <2>1 DEF Knows, Asking, Ending, InTask
  <2>2. CASE pc'[r] = "dispatch" /\ run'[r].traj.pending
             /\ (Enabled => disk' = [disk EXCEPT ![Task(r)] = run'[r].traj])
    <3>1. Enabled => disk'[t] = run'[r].traj
      BY <2>2 DEF IndInv, TypeOK
    <3> QED
      BY <1>3, <1>7, <2>2, <3>1 DEF Knows, Asking, Ending
  <2> QED
    BY <1>1, <2>1, <2>2 DEF AskStep
<1>11. InRun(r)' /\ Counts(r)'
  BY <1>2, <1>10 DEF AskLate, InRun
<1> QED
  BY <1>5, <1>9, <1>11, MineKeeps

(* The action's effect is the one that may be unknown until it is observed.    *)
LEMMA DispatchInv == ASSUME IndInv, TypeOK', Own', NEW r \in Runners, Dispatch(r)
                     PROVE  IndInv'
<1> PICK t \in Tasks : t = Task(r)
  BY DEF IndInv, TypeOK, Run, Task
<1>1. /\ pc[r] = "dispatch" /\ pc' = [pc EXCEPT ![r] = "observe"]
      /\ UNCHANGED <<lock, run, disk, recorded, stop, kills>>
  BY DEF Dispatch, Step
<1>2. t \in Runners /\ Task(r)' = t /\ pc[t] \notin Fresh
  BY <1>1 DEF Task, Tasks, IndInv, Started, InTask
<1>3. /\ run[r].traj.known = effects[t]
      /\ Enabled => disk[t] # None /\ disk[t].pending
      /\ ~Enabled => disk[t] = None
  BY <1>1 DEF IndInv, InRun, Knows, OnDisk, InTask
<1>4. \/ effects' = effects
      \/ effects' = [effects EXCEPT ![t] = @ \cup {<<r, run[r].steps>>}]
  BY DEF Dispatch
<1>5. /\ effects[t] \subseteq effects'[t]
      /\ effects'[t] \subseteq effects[t] \cup {<<r, run[r].steps>>}
      /\ \A u \in Tasks \ {t} : effects'[u] = effects[u]
  BY <1>4 DEF IndInv, TypeOK
<1>6. \/ late' = late
      \/ stop[r] /\ run[r].act = "tool" /\ late' = [late EXCEPT ![r] = @ + 1]
  BY DEF Dispatch, Begun
<1>7. Mine(r)
  BY <1>1, <1>2, <1>5, <1>6 DEF Mine, Live, Inside, IndInv, TypeOK
<1>8. OnDisk(t)'
  BY <1>1, <1>3 DEF OnDisk
<1>9. Knows(r)'
  BY <1>1, <1>2, <1>3, <1>5 DEF Knows, Asking, Ending, IndInv, TypeOK
<1>10. Checked(r)'
  BY <1>1, <1>6 DEF IndInv, InRun, Checked, Delivered, TypeOK
<1>11. Counts(r)'
  BY <1>1 DEF IndInv, Counted, Counts, TypeOK
<1> QED
  BY <1>7, <1>8, <1>9, <1>10, <1>11, MineKeeps DEF InRun

(* A reflection that ends the run: nothing was done, and what is saved knows   *)
(* everything, with the action still pending.                                  *)
LEMMA ReflectionInv == ASSUME IndInv, TypeOK', Own', NEW r \in Runners, ReflectionEnds(r)
                       PROVE  IndInv'
<1> PICK t \in Tasks : t = Task(r)
  BY DEF IndInv, TypeOK, Run, Task
<1> DEFINE traj == Acted(r)
<1>1. pc[r] = "dispatch" /\ UNCHANGED <<lock, effects, recorded, stop, kills>>
  BY DEF ReflectionEnds
<1>2. pc[r] \in Live /\ pc[t] \notin Fresh /\ t \in Runners
  BY <1>1 DEF IndInv, Started, InTask, Live, Inside, Tasks
<1>3. traj.known = effects[t] /\ (Enabled => disk[t] # None)
  BY <1>1, ActedDoes DEF IndInv, InRun, Knows, InTask
<1> HIDE DEF traj
<1>4. PICK s, c : Save(t, traj, FALSE) /\ Leave(r, traj, s, c)
  BY DEF ReflectionEnds, EndedByModel, traj
<1>5. /\ pc' = [pc EXCEPT ![r] = "verify"]
      /\ run'[r].traj = traj /\ run'[r].task = t
      /\ \A q \in Runners \ {r} : run'[q] = run[q]
  BY <1>4, LeaveDoes DEF IndInv
<1>6. disk' = disk \/ (Enabled /\ disk' = [disk EXCEPT ![t] = traj])
  BY <1>4, SaveDoes
<1>7. disk'[t] = disk[t] \/ (Enabled /\ disk'[t] = traj)
  BY <1>6 DEF IndInv, TypeOK
<1>8. traj # None
  BY <1>5 DEF TypeOK, Run
<1>9. late' = late \/ (stop[r] /\ late' = [late EXCEPT ![r] = @ + 1])
  BY DEF ReflectionEnds, Begun
<1>10. Task(r)' = t
  BY <1>5 DEF Task
<1>11. Mine(r)
  BY <1>1, <1>2, <1>5, <1>6, <1>9, <1>10 DEF Mine, Live, Inside, IndInv, TypeOK
<1>12. OnDisk(t)'
  BY <1>1, <1>3, <1>7, <1>8 DEF OnDisk, IndInv
<1>13. Knows(r)'
  BY <1>1, <1>3, <1>5, <1>7, <1>8, <1>10 DEF Knows, IndInv, TypeOK, InTask, Asking, Ending
<1>14. Counts(r)'
  BY <1>5 DEF Counts, IndInv, TypeOK
<1>15. Checked(r)'
  BY <1>1, <1>5, <1>9 DEF IndInv, InRun, Checked, Delivered, TypeOK
<1> QED
  BY <1>11, <1>12, <1>13, <1>14, <1>15, MineKeeps DEF InRun

(* A step that keeps what the run knows, and saves what it has in memory.      *)
Saving(r, t, to, traj) ==
  /\ pc' = [pc EXCEPT ![r] = to]
  /\ \A q \in Runners \ {r} : run'[q] = run[q]
  /\ run'[r].task = t /\ run'[r].traj = traj
  /\ disk' = disk \/ (Enabled /\ disk' = [disk EXCEPT ![t] = traj])
  /\ UNCHANGED <<lock, effects, recorded, stop>>
  /\ Checked(r)' /\ \A q \in Runners \ {r} : late'[q] = late[q]

LEMMA SavingInv ==
  ASSUME IndInv, TypeOK', Own', NEW r \in Runners, NEW t \in Tasks, t = Task(r),
         NEW traj, NEW to \in {"loop", "contract", "verify"}, Saving(r, t, to, traj),
         pc[r] \in Live, t = r \/ pc[t] \notin Fresh,
         traj.known = effects[t], ~traj.pending,
         disk' = disk => /\ Enabled => disk[t] # None
                         /\ disk[t] # None => ~disk[t].pending
  PROVE  IndInv'
<1>1. t \in Runners /\ Task(r)' = t
  BY DEF Task, Tasks, Saving
<1>2. Mine(r)
  BY <1>1 DEF Mine, Saving, Live, Inside, IndInv, TypeOK, Tasks
<1>3. run'[r].traj # None
  BY DEF TypeOK, Run
<1>4. \/ disk' = disk
      \/ Enabled /\ disk'[t] = traj
  BY DEF Saving, IndInv, TypeOK
<1>5. OnDisk(t)'
  BY <1>3, <1>4 DEF OnDisk, Saving, IndInv
<1>6. Knows(r)'
  BY <1>1, <1>3, <1>4 DEF Knows, Saving, IndInv, TypeOK, OnDisk, InTask, Asking, Ending
<1>7. Checked(r)' /\ Counts(r)'
  BY DEF Counts, Saving, IndInv, TypeOK
<1> QED
  BY <1>2, <1>5, <1>6, <1>7, MineKeeps DEF InRun

LEMMA ObserveInv == ASSUME IndInv, TypeOK', Own', NEW r \in Runners, Observe(r)
                    PROVE  IndInv'
<1> DEFINE traj == Observed(r)
<1> PICK t \in Tasks : t = Task(r)
  BY DEF IndInv, TypeOK, Run, Task
<1>1. pc[r] = "observe" /\ UNCHANGED <<lock, effects, recorded, stop, late, kills>>
  BY DEF Observe
<1>2. pc[r] \in Live /\ pc[t] \notin Fresh
  BY <1>1 DEF IndInv, Started, InTask, Live, Inside
<1>3. traj \in Trajectory /\ ~traj.pending
      /\ traj.known = run[r].traj.known \cup (effects[t] \cap {<<r, run[r].steps>>})
  <2>1. Acted(r) \in Trajectory /\ Acted(r).known = run[r].traj.known
    BY ActedTyped, ActedDoes DEF IndInv
  <2>2. traj \in Trajectory
    BY <1>1, ObservedTyped DEF IndInv
  <2> QED
    BY <2>1, <2>2 DEF Observed, Trajectory
<1>4. traj.known = effects[t]
  BY <1>1, <1>3 DEF IndInv, InRun, Knows
<1>5. IF Enabled THEN disk' = [disk EXCEPT ![t] = traj] ELSE disk' = disk
  BY DEF Observe, Save, Due
<1>6. disk' = disk => /\ Enabled => disk[t] # None
                      /\ disk[t] # None => ~disk[t].pending
  <2>1. CASE Enabled
    <3>1. disk'[t] = traj
      BY <1>5, <2>1 DEF IndInv, TypeOK
    <3> QED
      BY <1>3, <3>1
  <2>2. CASE ~Enabled
    BY <2>2 DEF IndInv, OnDisk
  <2> QED
    BY <2>1, <2>2
<1>7. ASSUME NEW to \in {"loop", "contract", "verify"}, pc' = [pc EXCEPT ![r] = to],
             to = "contract" => run[r].act = "finish"
      PROVE  Checked(r)' /\ \A q \in Runners \ {r} : late'[q] = late[q]
  BY <1>1, <1>7 DEF Checked, Delivered, IndInv, InRun, TypeOK
<1>8. disk' = disk \/ (Enabled /\ disk' = [disk EXCEPT ![t] = traj])
  BY <1>5
<1> HIDE DEF traj
<1>9. ASSUME NEW to \in {"loop", "contract"}, Goto(r, to), Keep(r, traj),
             to = "contract" => run[r].act = "finish"
      PROVE  IndInv'
  <2>1. /\ \A q \in Runners \ {r} : run'[q] = run[q]
        /\ run'[r].task = t /\ run'[r].traj = traj
    BY <1>9 DEF Keep, IndInv, TypeOK, Run, Task
  <2>2. Saving(r, t, to, traj)
    BY <1>1, <1>7, <1>8, <1>9, <2>1 DEF Saving, Goto
  <2> QED
    BY <1>2, <1>3, <1>4, <1>6, <2>2, SavingInv
<1>10. ASSUME NEW s, NEW c, Leave(r, traj, s, c) PROVE IndInv'
  <2>1. Saving(r, t, "verify", traj)
    BY <1>1, <1>7, <1>8, <1>10, LeaveDoes DEF Saving, IndInv
  <2> QED
    BY <1>2, <1>3, <1>4, <1>6, <2>1, SavingInv
<1> QED
  BY <1>9, <1>10 DEF Observe, traj

LEMMA ContractInv == ASSUME IndInv, TypeOK', Own', NEW r \in Runners, Contract(r)
                     PROVE  IndInv'
<1> DEFINE traj == Acted(r)
<1> PICK t \in Tasks : t = Task(r)
  BY DEF IndInv, TypeOK, Run, Task
<1>1. pc[r] = "contract" /\ UNCHANGED <<lock, effects, recorded, stop, kills>>
  BY DEF Contract
<1>2. pc[r] \in Live /\ pc[t] \notin Fresh
  BY <1>1 DEF IndInv, Started, InTask, Live, Inside
<1>3. traj.pending = run[r].traj.pending
      /\ traj.known = run[r].traj.known
  BY ActedDoes DEF IndInv
<1>4. traj.known = effects[t] /\ ~traj.pending
  BY <1>1, <1>3 DEF IndInv, InRun, Knows
<1>5. (Enabled => disk[t] # None) /\ (disk[t] # None => ~disk[t].pending)
  BY <1>1 DEF IndInv, InRun, Knows, InTask
<1>6. ASSUME NEW to \in {"loop", "verify"}, pc' = [pc EXCEPT ![r] = to]
      PROVE  Checked(r)' /\ \A q \in Runners \ {r} : late'[q] = late[q]
  <2>1. late' = IF stop[r] THEN [late EXCEPT ![r] = @ + 1] ELSE late
    BY DEF Contract, Begun
  <2> QED
    BY <1>1, <1>6, <2>1 DEF Checked, Delivered, IndInv, InRun, TypeOK
<1> HIDE DEF traj
<1>7. ASSUME NEW c, Leave(r, traj, "completed", c), UNCHANGED disk PROVE IndInv'
  <2>1. Saving(r, t, "verify", traj)
    BY <1>1, <1>6, <1>7, LeaveDoes DEF Saving, IndInv
  <2> QED
    BY <1>2, <1>4, <1>5, <2>1, SavingInv
<1>8. ASSUME Goto(r, "loop"), Keep(r, traj), Save(t, traj, FALSE) PROVE IndInv'
  <2>1. /\ \A q \in Runners \ {r} : run'[q] = run[q]
        /\ run'[r].task = t /\ run'[r].traj = traj
    BY <1>8 DEF Keep, IndInv, TypeOK, Run, Task
  <2>2. disk' = disk \/ (Enabled /\ disk' = [disk EXCEPT ![t] = traj])
    BY <1>8, SaveDoes
  <2>3. Saving(r, t, "loop", traj)
    BY <1>1, <1>6, <1>8, <2>1, <2>2 DEF Saving, Goto
  <2> QED
    BY <1>2, <1>4, <1>5, <2>3, SavingInv
<1> QED
  BY <1>7, <1>8 DEF Contract, traj

LEMMA FinishInv == ASSUME IndInv, TypeOK', Own', NEW r \in Runners, Finish(r) PROVE IndInv'
<1> PICK t \in Tasks : t = Task(r)
  BY DEF IndInv, TypeOK, Run, Task
<1>1. pc[r] \in Ending /\ UNCHANGED <<lock, effects, stop, kills>>
  BY DEF Finish, Verify, Test, Deliver, Persist, Clear, Step, Ending
<1>2. /\ pc[r] \in Live /\ pc[r] \in InTask /\ t \in Runners
      /\ t = r \/ pc[t] \notin Fresh
  BY <1>1 DEF IndInv, Started, InTask, Live, Inside, Ending, Tasks
<1>3. run[r].traj.known = effects[t] /\ (Enabled => disk[t] # None)
  BY <1>1, <1>2 DEF IndInv, InRun, Knows
<1>4. ASSUME NEW to \in Ending, pc' = [pc EXCEPT ![r] = to],
             \A q \in Runners \ {r} : run'[q] = run[q] /\ late'[q] = late[q],
             run'[r].task = t, run'[r].traj = run[r].traj,
             UNCHANGED disk, \A u \in Tasks \ {t} : recorded'[u] = recorded[u],
             to = "clear" => recorded'[t] # None /\ recorded'[t].known = effects[t],
             Checked(r)', Counts(r)'
      PROVE  IndInv'
  <2>1. Task(r)' = t
    BY <1>4 DEF Task
  <2>2. Mine(r)
    BY <1>1, <1>2, <1>4, <2>1 DEF Mine, Live, Inside, Ending, IndInv, TypeOK
  <2>3. OnDisk(t)'
    BY <1>1, <1>3, <1>4 DEF OnDisk, IndInv
  <2>4. Knows(r)'
    BY <1>1, <1>3, <1>4, <2>1 DEF Knows, IndInv, TypeOK, Asking, Ending
  <2> QED
    BY <1>4, <2>2, <2>3, <2>4, MineKeeps DEF InRun
<1>5. ASSUME Verify(r) PROVE IndInv'
  <2>1. PICK to \in {"deliver", "test"} :
          /\ pc' = [pc EXCEPT ![r] = to] /\ UNCHANGED <<run, disk, recorded, late>>
          /\ to = "test" => ~stop[r] /\ run[r].tests # Commands
    BY <1>5 DEF Verify, Goto
  <2>2. run[r].tests # Commands => run[r].tests < Commands
    <3>1. run[r] \in Run
      BY DEF IndInv, TypeOK
    <3>2. run[r].tests \in 0..Commands
      BY <3>1 DEF Run
    <3> QED
      BY <3>2
  <2>3. Checked(r)' /\ Counts(r)'
    BY <1>1, <1>5, <2>1, <2>2 DEF Verify, Checked, Delivered, Counts, IndInv, InRun, TypeOK
  <2> QED
    BY <1>4, <2>1, <2>3 DEF Ending, Task
<1>6. ASSUME Test(r) PROVE IndInv'
  <2>1. /\ pc[r] = "test" /\ pc' = [pc EXCEPT ![r] = "verify"]
        /\ run' = [run EXCEPT ![r] = [run[r] EXCEPT !.tests = @ + 1]]
        /\ UNCHANGED <<disk, recorded>>
    BY <1>6 DEF Test, Step, IndInv, TypeOK
  <2>2. late' = late \/ (stop[r] /\ late' = [late EXCEPT ![r] = @ + 1])
    BY <1>6 DEF Test, Begun
  <2>3. Checked(r)' /\ Counts(r)'
    BY <1>1, <2>1, <2>2 DEF Checked, Delivered, Counts, IndInv, InRun, TypeOK
  <2>4. /\ \A q \in Runners \ {r} : run'[q] = run[q] /\ late'[q] = late[q]
        /\ run'[r].task = t /\ run'[r].traj = run[r].traj
    BY <2>1, <2>2 DEF IndInv, TypeOK, Run, Task
  <2> QED
    BY <1>4, <2>1, <2>3, <2>4 DEF Ending
<1>7. ASSUME Deliver(r) PROVE IndInv'
  <2>1. /\ pc[r] = "deliver" /\ pc' = [pc EXCEPT ![r] = "persist"]
        /\ UNCHANGED <<disk, recorded>>
        /\ \/ late' = late
           \/ /\ stop[r] /\ late' = [late EXCEPT ![r] = @ + 1]
              /\ t \in Bound
    BY <1>7 DEF Deliver, Step, Checkable, Begun
  <2>2. run' = run \/ run' = [run EXCEPT ![r] = [run[r] EXCEPT !.status = "needs_human"]]
    BY <1>7 DEF Deliver, IndInv, TypeOK
  <2>3. /\ \A q \in Runners \ {r} : run'[q] = run[q] /\ late'[q] = late[q]
        /\ run'[r].task = t /\ run'[r].traj = run[r].traj
    BY <2>1, <2>2 DEF IndInv, TypeOK, Run, Task
  <2>4. stop[r] => t = r
    BY DEF IndInv, Own
  <2>5. Checked(r)' /\ Counts(r)'
    BY <1>1, <2>1, <2>4 DEF Checked, Delivered, Counts, IndInv, InRun, TypeOK
  <2> QED
    BY <1>4, <2>1, <2>3, <2>5 DEF Ending
<1>8. ASSUME Persist(r) PROVE IndInv'
  <2>1. /\ pc' = [pc EXCEPT ![r] = "clear"] /\ UNCHANGED <<run, disk, late>>
        /\ recorded' = [recorded EXCEPT ![t] =
                          [known |-> run[r].traj.known, status |-> run[r].status]]
    BY <1>8 DEF Persist, Step
  <2>2. recorded'[t] = [known |-> run[r].traj.known, status |-> run[r].status]
        /\ \A u \in Tasks \ {t} : recorded'[u] = recorded[u]
    BY <2>1 DEF IndInv, TypeOK
  <2>3. recorded'[t] # None /\ recorded'[t].known = effects[t]
    <3>1. recorded'[t] \in Record
      BY <2>2 DEF IndInv, TypeOK, Run, Trajectory, Record
    <3> QED
      BY <1>3, <2>2, <3>1
  <2>4. Checked(r)' /\ Counts(r)'
    BY <1>1, <1>8, <2>1 DEF Persist, Step, Checked, Delivered, Counts, IndInv, InRun, TypeOK
  <2> QED
    BY <1>3, <1>4, <2>1, <2>2, <2>3, <2>4 DEF Ending, Task
<1>9. ASSUME Clear(r) PROVE IndInv'
  <2>1. /\ pc[r] = "clear" /\ pc' = [pc EXCEPT ![r] = "leaving"]
        /\ disk' = [disk EXCEPT ![t] = None] /\ UNCHANGED <<run, recorded, late>>
    BY <1>9 DEF Clear, Step
  <2>2. disk'[t] = None /\ \A u \in Tasks \ {t} : disk'[u] = disk[u]
    BY <2>1 DEF IndInv, TypeOK
  <2>3. recorded[t] # None /\ recorded[t].known = effects[t]
    BY <2>1 DEF IndInv, InRun, Knows
  <2>4. Mine(r)
    BY <1>1, <1>2, <2>1, <2>2
       DEF Mine, Live, Inside, Ending, Asking, InTask, IndInv, TypeOK
  <2>5. OnDisk(t)'
    BY <1>1, <2>1, <2>2, <2>3 DEF OnDisk, IndInv
  <2>6. InRun(r)' /\ Counts(r)'
    BY <1>1, <2>1 DEF InRun, Knows, Checked, Delivered, Counts, IndInv, TypeOK, InTask,
                      Asking, Ending
  <2> QED
    BY <2>4, <2>5, <2>6, MineKeeps
<1> QED
  BY <1>5, <1>6, <1>7, <1>8, <1>9 DEF Finish

(* The first checkpoint: nothing has been done for the task yet.               *)
LEMMA PrepareInv == ASSUME IndInv, TypeOK', Own', NEW r \in Runners, Prepare(r) PROVE IndInv'
<1>1. pc[r] = "prepare" /\ UNCHANGED <<lock, effects, recorded, stop, late, kills>>
  BY DEF Prepare
<1>2. /\ run[r] = NewRun(r, NewTrajectory(r)) /\ r \in Tasks
      /\ effects[r] = {} /\ disk[r] = None /\ recorded[r] = None
  BY <1>1 DEF IndInv, NewTask, Fresh, Tasks
<1>3. /\ Task(r) = r /\ run[r].traj.known = {} /\ run[r].traj.acts = 0
      /\ ~run[r].traj.pending /\ run[r].traj \in Trajectory
  <2>1. NewTrajectory(r).known = {} /\ NewTrajectory(r).acts = 0
        /\ ~NewTrajectory(r).pending /\ NewTrajectory(r) \in Trajectory
    BY NewTyped DEF NewTrajectory
  <2>2. run[r].task = r /\ run[r].traj = NewTrajectory(r)
    BY <1>2 DEF NewRun
  <2> QED
    BY <2>1, <2>2 DEF Task
<1>4. IF Enabled THEN disk' = [disk EXCEPT ![r] = run[r].traj] ELSE disk' = disk
  BY <1>3 DEF Prepare, Save, Due
<1>5. /\ Enabled => disk'[r] = run[r].traj
      /\ ~Enabled => disk'[r] = None
      /\ \A u \in Tasks \ {r} : disk'[u] = disk[u]
  BY <1>2, <1>4 DEF IndInv, TypeOK
<1>6. /\ Acted(r).known = {} /\ ~Acted(r).pending /\ Acted(r) \in Trajectory
      /\ [Acted(r) EXCEPT !.dry = TRUE].known = {}
      /\ ~[Acted(r) EXCEPT !.dry = TRUE].pending
  BY <1>3, ActedDoes, ActedTyped DEF IndInv, Trajectory
<1>7. OnDisk(r)'
  BY <1>1, <1>2, <1>3, <1>5 DEF OnDisk
<1>8. ASSUME NEW to \in {"loop", "verify"}, pc' = [pc EXCEPT ![r] = to],
             \A q \in Runners \ {r} : run'[q] = run[q],
             run'[r].task = r, run'[r].traj.known = {}, ~run'[r].traj.pending
      PROVE  IndInv'
  <2>1. Task(r)' = r
    BY <1>8 DEF Task
  <2>2. Mine(r)
    BY <1>1, <1>3, <1>5, <1>8, <2>1 DEF Mine, Live, Inside, IndInv, TypeOK
  <2>3. Knows(r)'
    BY <1>1, <1>2, <1>3, <1>5, <1>8, <2>1 DEF Knows, IndInv, TypeOK, Asking, Ending
  <2>4. Checked(r)' /\ Counts(r)'
    BY <1>1, <1>8, <2>1 DEF Checked, Delivered, Counts, IndInv, InRun, TypeOK
  <2> QED
    BY <1>3, <1>7, <2>2, <2>3, <2>4, MineKeeps DEF InRun
<1>9. CASE r \notin Gated
  BY <1>3, <1>8, <1>9 DEF Prepare, Goto, Task
<1>10. CASE r \in Gated /\ ShadowMode
  <2>1. /\ pc' = [pc EXCEPT ![r] = "loop"]
        /\ run' = [run EXCEPT ![r].traj = [Acted(r) EXCEPT !.dry = TRUE]]
    BY <1>10 DEF Prepare, Goto, Keep
  <2>2. /\ \A q \in Runners \ {r} : run'[q] = run[q]
        /\ run'[r].task = r /\ run'[r].traj = [Acted(r) EXCEPT !.dry = TRUE]
    BY <1>3, <2>1 DEF IndInv, TypeOK, Run, Task
  <2> QED
    BY <1>6, <1>8, <2>1, <2>2
<1>11. CASE r \in Gated /\ ~ShadowMode
  <2>1. Leave(r, Acted(r), "needs_human", FALSE)
    BY <1>11 DEF Prepare
  <2>2. /\ pc' = [pc EXCEPT ![r] = "verify"]
        /\ run'[r].traj = Acted(r) /\ run'[r].task = r
        /\ \A q \in Runners \ {r} : run'[q] = run[q]
    BY <1>3, <2>1, LeaveDoes DEF IndInv
  <2> QED
    BY <1>6, <1>8, <2>2
<1> QED
  BY <1>9, <1>10, <1>11

(* A resumed run goes on from a checkpoint that has no pending action.         *)
LEMMA LoadInv == ASSUME IndInv, TypeOK', Own', NEW r \in Runners, Load(r) PROVE IndInv'
<1> PICK t \in Tasks : t = Task(r)
  BY DEF IndInv, TypeOK, Run, Task
<1>1. pc[r] = "load" /\ UNCHANGED <<lock, disk, effects, recorded, stop, late, kills>>
  BY DEF Load
<1>2. OnDisk(t)'
  BY <1>1 DEF OnDisk, IndInv
<1>3. CASE Goto(r, "closing") /\ Forget(r)
  <2>1. /\ pc' = [pc EXCEPT ![r] = "closing"]
        /\ \A q \in Runners \ {r} : run'[q] = run[q]
    BY <1>3 DEF Goto, Forget, IndInv, TypeOK
  <2>2. Mine(r)
    BY <1>1, <2>1 DEF Mine, Live, Inside, InTask, Asking, Ending, IndInv, TypeOK
  <2>3. InRun(r)' /\ Counts(r)'
    BY <1>1, <2>1 DEF InRun, Knows, Checked, Delivered, Counts, IndInv, TypeOK, InTask,
                      Asking, Ending
  <2> QED
    BY <1>2, <2>2, <2>3, MineKeeps
<1>4. CASE /\ disk[t] # None /\ ~disk[t].pending /\ Goto(r, "loop")
           /\ Keep(r, [disk[t] EXCEPT !.dry = @ \/ run[r].traj.dry])
  <2> DEFINE traj == [disk[t] EXCEPT !.dry = @ \/ run[r].traj.dry]
  <2>1. disk[t] \in Trajectory /\ disk[t].known = effects[t]
    BY <1>4 DEF IndInv, OnDisk, TypeOK
  <2>2. traj.known = effects[t] /\ ~traj.pending
    BY <1>4, <2>1 DEF Trajectory
  <2>3. t \in Runners /\ pc[t] \notin Fresh
    BY <1>4 DEF IndInv, NewTask, Tasks
  <2> HIDE DEF traj
  <2>4. Keep(r, traj)
    BY <1>4 DEF traj
  <2>5. /\ \A q \in Runners \ {r} : run'[q] = run[q]
        /\ run'[r].task = t /\ run'[r].traj = traj
    BY <2>4 DEF Keep, IndInv, TypeOK, Run, Task
  <2>6. Checked(r)'
    BY <1>1, <1>4 DEF Goto, Checked, Delivered, IndInv, InRun, TypeOK
  <2>7. Saving(r, t, "loop", traj)
    BY <1>1, <1>4, <2>5, <2>6 DEF Saving, Goto
  <2> QED
    BY <1>1, <1>4, <2>2, <2>3, <2>7, SavingInv DEF Live, Inside
<1> QED
  BY <1>3, <1>4 DEF Load

(* Runners that enter or leave a run, all at once if a process is killed.      *)
Outside == {"idle", "prepare", "load", "closing", "returned", "raised", "killed"}
LEMMA OutsideInv ==
  ASSUME IndInv, TypeOK', Own', UNCHANGED <<disk, effects, recorded, stop, late>>,
         LockHeld',
         NEW S \in SUBSET Runners,
         \A r \in Runners \ S : pc'[r] = pc[r] /\ run'[r] = run[r],
         \A r \in S : pc'[r] \in Outside,
         \A r \in S : pc'[r] \in Fresh => pc[r] \in Fresh /\ run'[r] = run[r],
         \A r \in S : pc'[r] \in {"idle", "prepare", "load"} => pc[r] = "idle"
  PROVE  IndInv'
<1>1. ASSUME NEW r \in S PROVE r \in Runners /\ InRun(r)' /\ Counts(r)'
  <2>1. Knows(r)' /\ Counts(r)'
    BY DEF Knows, Counts, Task, InTask, Asking, Ending, Outside
  <2>2. pc'[r] \in Delivered \/ pc[r] \notin Delivered
    BY DEF Outside, Delivered
  <2>3. late[r] \in Nat /\ late'[r] = late[r] /\ stop'[r] = stop[r]
    BY DEF IndInv, TypeOK
  <2>4. Checked(r)'
    BY <2>2, <2>3 DEF Checked, IndInv, InRun, Outside
  <2> QED
    BY <2>1, <2>4 DEF InRun
<1>2. ASSUME NEW r \in Runners \ S PROVE InRun(r)' /\ Counts(r)'
  BY DEF InRun, Knows, Checked, Counts, Task, IndInv, Counted
<1>3. NewTask'
  <2> SUFFICES ASSUME NEW q \in Runners, pc'[q] \in Fresh
               PROVE  /\ run'[q] = NewRun(q, NewTrajectory(q))
                      /\ effects'[q] = {} /\ disk'[q] = None /\ recorded'[q] = None
    BY DEF NewTask
  <2>1. pc[q] \in Fresh /\ run'[q] = run[q]
    OBVIOUS
  <2> QED
    BY <2>1 DEF IndInv, NewTask
<1>4. Started'
  <2> SUFFICES ASSUME NEW q \in Runners, pc'[q] \in InTask
               PROVE  pc'[Task(q)'] \notin Fresh
    BY DEF Started
  <2>1. q \notin S
    BY DEF InTask, Outside, Asking, Ending
  <2>2. Task(q)' = Task(q) /\ pc[Task(q)] \notin Fresh /\ Task(q) \in Runners
    BY <2>1 DEF Task, IndInv, Started, TypeOK, Run, Tasks
  <2> QED
    BY <2>2
<1>5. ASSUME NEW t \in Tasks PROVE OnDisk(t)'
  BY DEF OnDisk, IndInv
<1> QED
  BY <1>1, <1>2, <1>3, <1>4, <1>5 DEF IndInv, Counted

LEMMA EnterInv == ASSUME IndInv, TypeOK', Own', NEW r \in Runners, Begin(r) \/ BeginResume(r)
                  PROVE  IndInv'
<1>1. /\ pc[r] = "idle" /\ UNCHANGED <<disk, effects, recorded, stop, late>>
      /\ \/ lock = Nobody /\ lock' = r /\ pc'[r] \in {"prepare", "load"}
         \/ lock # Nobody /\ lock' = lock /\ pc'[r] = "raised"
      /\ \A q \in Runners \ {r} : pc'[q] = pc[q]
  BY DEF Begin, BeginResume, Acquire, Goto, IndInv, TypeOK
<1>2. /\ \A q \in Runners \ {r} : run'[q] = run[q]
      /\ pc'[r] = "prepare" => run' = run
  <2>1. CASE Begin(r)
    BY <1>1, <2>1 DEF Begin, Acquire, Goto, IndInv, TypeOK
  <2>2. CASE BeginResume(r)
    <3>1. PICK t \in Tasks \ {r} : /\ Acquire(r, "load")
                                   /\ run' = [run EXCEPT ![r].task = t]
      BY <2>2 DEF BeginResume
    <3>2. \A q \in Runners \ {r} : run'[q] = run[q]
      BY <3>1 DEF IndInv, TypeOK
    <3>3. pc'[r] \in {"load", "raised"}
      BY <3>1 DEF Acquire, Goto, IndInv, TypeOK
    <3> QED
      BY <3>2, <3>3
  <2> QED
    BY <2>1, <2>2
<1>3. LockHeld'
  BY <1>1 DEF IndInv, LockHeld, Live, Inside
<1>4. pc'[r] \in Outside /\ (pc'[r] \in Fresh => pc[r] \in Fresh /\ run'[r] = run[r])
  BY <1>1, <1>2 DEF Outside, Fresh
<1> DEFINE S == {r}
<1>5. S \in SUBSET Runners /\ UNCHANGED <<disk, effects, recorded, stop, late>>
  BY <1>1
<1>6. \A q \in Runners \ S : pc'[q] = pc[q] /\ run'[q] = run[q]
  BY <1>1, <1>2
<1>7. \A q \in S : pc'[q] \in Outside
  BY <1>4
<1>8. \A q \in S : pc'[q] \in Fresh => pc[q] \in Fresh /\ run'[q] = run[q]
  BY <1>4
<1>9. \A q \in S : pc'[q] \in {"idle", "prepare", "load"} => pc[q] = "idle"
  BY <1>1
<1> HIDE DEF S
<1> QED
  BY <1>3, <1>5, <1>6, <1>7, <1>8, <1>9, OutsideInv

LEMMA LeaveInv == ASSUME IndInv, TypeOK', Own', NEW r \in Runners, Raise(r) \/ Release(r)
                  PROVE  IndInv'
<1>1. /\ pc[r] \in Live /\ UNCHANGED <<disk, effects, recorded, stop, late>>
      /\ \A q \in Runners \ {r} : pc'[q] = pc[q] /\ run'[q] = run[q]
      /\ \/ lock' = lock /\ pc'[r] = "closing"
         \/ lock' = Nobody /\ pc'[r] \in {"returned", "raised"}
  BY DEF Raise, Release, Goto, Step, Forget, Result, Live, Inside, IndInv, TypeOK
<1>2. LockHeld'
  BY <1>1 DEF IndInv, LockHeld, Live, Inside
<1> DEFINE S == {r}
<1>3. /\ S \in SUBSET Runners
      /\ \A q \in Runners \ S : pc'[q] = pc[q] /\ run'[q] = run[q]
      /\ \A q \in S : pc'[q] \in Outside \ {"idle", "prepare", "load"}
                      /\ pc'[q] \notin Fresh
  BY <1>1 DEF Outside, Fresh
<1> HIDE DEF S
<1> QED
  BY <1>1, <1>2, <1>3, OutsideInv

LEMMA KillInv == ASSUME IndInv, TypeOK', Own', NEW p \in Processes, Kill(p) PROVE IndInv'
<1> DEFINE S == {r \in Runners : Home[r] = p /\ pc[r] \notin Ended}
<1>1. /\ \A r \in S : pc'[r] = "killed"
      /\ \A r \in Runners \ S : pc'[r] = pc[r] /\ run'[r] = run[r]
      /\ UNCHANGED <<disk, effects, recorded, stop, late>>
  BY DEF Kill
<1>2. LockHeld'
  <2>1. CASE lock # Nobody /\ Home[lock] = p
    BY <1>1, <2>1 DEF Kill, IndInv, LockHeld, Live, Inside, Ended, TypeOK
  <2>2. CASE ~(lock # Nobody /\ Home[lock] = p)
    BY <1>1, <2>2 DEF Kill, IndInv, LockHeld, Live, Inside, Ended, TypeOK
  <2> QED
    BY <2>1, <2>2
<1>3. \A r \in S : pc'[r] \in Outside \ {"idle", "prepare", "load"} /\ pc'[r] \notin Fresh
  BY <1>1 DEF Outside, Fresh
<1> QED
  BY <1>1, <1>2, <1>3, OutsideInv

LEMMA RequestStopInv == ASSUME IndInv, TypeOK', Own', NEW r \in Runners, RequestStop(r)
                        PROVE  IndInv'
<1>1. UNCHANGED <<lock, pc, run, disk, effects, recorded, late>>
      /\ \A q \in Runners : stop[q] => stop'[q]
  BY DEF RequestStop, IndInv, TypeOK
<1>2. LockHeld' /\ Counted' /\ NewTask' /\ Started'
  BY <1>1 DEF IndInv, LockHeld, Counted, Counts, NewTask, Started, Task
<1>3. \A t \in Tasks : OnDisk(t)'
  BY <1>1 DEF IndInv, OnDisk
<1>4. \A q \in Runners : Knows(q)' /\ Checked(q)'
  BY <1>1 DEF IndInv, InRun, Knows, Checked, Task, TypeOK
<1> QED
  BY <1>2, <1>3, <1>4 DEF IndInv, InRun

THEOREM StepInv == IndInv /\ [Next]_vars => IndInv'
<1> SUFFICES ASSUME IndInv, [Next]_vars PROVE IndInv'
  OBVIOUS
<1>1. TypeOK'
  BY TypeStep DEF IndInv
<1>4. Own'
  BY OwnStep DEF IndInv
<1>2. CASE UNCHANGED vars
  BY <1>2 DEF vars, IndInv, TypeOK, LockHeld, Counted, Counts, NewTask, Started, Task,
              Own, OnDisk, InRun, Knows, Checked
<1>3. ASSUME NEW r \in Runners, Work(r) PROVE IndInv'
  BY <1>1, <1>3, <1>4, PrepareInv, LoadInv, AskInv, DispatchInv, ReflectionInv, ObserveInv,
     ContractInv, FinishInv, LeaveInv DEF Work, Act
<1> QED
  BY <1>1, <1>2, <1>3, <1>4, EnterInv, LeaveInv, RequestStopInv, KillInv DEF Next

THEOREM Inductive == Spec => []IndInv
  BY InitInv, StepInv, PTL DEF Spec
-------------------------------------------------------------------------------
(* TypeOK: every variable keeps its type, the counters their bounds.           *)
THEOREM Types == Spec => []TypeOK
<1>1. IndInv => TypeOK
  BY DEF IndInv
<1> QED
  BY <1>1, Inductive, PTL

(* NothingForgotten, for any number of runners, crashes and resumptions:       *)
(* whenever the model is asked, the run's trajectory has an observation of     *)
(* everything that was ever done for its task.                                 *)
THEOREM Remembered == Spec => []NothingForgotten
<1>1. IndInv => NothingForgotten
  BY DEF IndInv, InRun, Knows, NothingForgotten, Asking
<1> QED
  BY <1>1, Inductive, PTL

(* EffectsAccounted: with checkpoints on, no effect is missing from disk.      *)
THEOREM Accounted == Spec => []EffectsAccounted
<1>1. IndInv => EffectsAccounted
  BY DEF IndInv, OnDisk, EffectsAccounted
<1> QED
  BY <1>1, Inductive, PTL

(* StopHeeded: a stop is late for at most one request of the loop, tool or     *)
(* test, and for the last check of a task's deliverables.                      *)
THEOREM StopsSoon == Spec => []StopHeeded
<1>1. IndInv => StopHeeded
  BY DEF IndInv, TypeOK, InRun, Checked, StopHeeded
<1> QED
  BY <1>1, Inductive, PTL

(* The execution lock excludes: two runs of a project are never in progress    *)
(* at once, whatever their processes.                                          *)
OneRun == \A r, q \in Runners : pc[r] \in Live /\ pc[q] \in Live => r = q
THEOREM Exclusive == Spec => []OneRun
<1>1. IndInv => OneRun
  BY DEF IndInv, LockHeld, OneRun
<1> QED
  BY <1>1, Inductive, PTL
================================================================================
