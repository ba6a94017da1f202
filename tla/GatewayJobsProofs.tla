-------------------------- MODULE GatewayJobsProofs --------------------------
(* Theorems of GatewayJobs, for any number of jobs and command lines: what     *)
(* AgentRuntimeProofs says of runs holds of the gateway's, a final status is   *)
(* final, and it is true.                                                      *)
EXTENDS GatewayJobs, AgentRuntimeProofs

USE RuntimeAssumption, NoneAssumption, GatewayAssumption

(* What one step of a run does to its own task and to nothing else.            *)
Effect(r) ==
  /\ \A q \in Runners \ {r} : pc'[q] = pc[q] /\ run'[q] = run[q]
  /\ \A t \in Tasks \ {Task(r)} : disk'[t] = disk[t] /\ recorded'[t] = recorded[t]
  /\ pc[r] \notin InTask \cup {"prepare"} => UNCHANGED <<disk, recorded>>
  /\ pc'[r] \in InTask =>
       \/ pc[r] \in InTask \cup {"prepare"}
       \/ pc[r] = "load" /\ disk[Task(r)] # None
  /\ pc'[r] \in InTask \cup {"leaving"} => run'[r].task = run[r].task
  /\ run'[r].task \in {run[r].task, r}
  /\ pc'[r] = "clear" => /\ run'[r].status = run[r].status
                         /\ recorded'[Task(r)] # None
                         /\ recorded'[Task(r)].status = run[r].status
  /\ pc'[r] = "leaving" => pc[r] = "clear" /\ disk'[Task(r)] = None
                           /\ UNCHANGED <<run, recorded>>
  /\ pc'[r] = "returned" => pc[r] = "leaving" /\ run'[r].status = run[r].status
  /\ run'[r].status = "cancelled" => run[r].status = "cancelled" \/ stop[r]
  /\ UNCHANGED stop

LEMMA LeaveStatus ==
  ASSUME TypeOK, NEW r \in Runners, NEW traj, NEW s, NEW c, Leave(r, traj, s, c),
         s = "cancelled" => stop[r]
  PROVE  run'[r].status = "cancelled" => stop[r]
  BY DEF Leave, NewRun, TypeOK

LEMMA SetsElsewhere ==
  ASSUME TypeOK, NEW r \in Runners, NEW traj, NEW force, Save(Task(r), traj, force)
  PROVE  \A t \in Tasks \ {Task(r)} : disk'[t] = disk[t]
  BY DEF Save, TypeOK

(* Steps that lead to another step of the run's task and keep its status.      *)
LEMMA EffectPlain ==
  ASSUME TypeOK, NEW r \in Runners, pc[r] \in InTask \cup {"prepare"},
         \A q \in Runners \ {r} : pc'[q] = pc[q] /\ run'[q] = run[q],
         \A t \in Tasks \ {Task(r)} : disk'[t] = disk[t],
         pc'[r] \notin {"clear", "leaving", "returned"},
         run'[r].task = run[r].task,
         run'[r].status = "cancelled" => run[r].status = "cancelled" \/ stop[r],
         UNCHANGED <<recorded, stop>>
  PROVE  Effect(r)
  BY DEF Effect

LEMMA EffectAsk == ASSUME TypeOK, NEW r \in Runners, Ask(r) PROVE Effect(r)
<1>1. AskStep(r)
  BY AskDoes
<1>2. run'[r].status = "cancelled" => run[r].status = "cancelled" \/ stop[r]
  <2>1. ASSUME NEW traj, NEW s, NEW c, Leave(r, traj, s, c), s = "cancelled" => stop[r]
        PROVE  run'[r].status = "cancelled" => stop[r]
    BY <2>1, LeaveStatus
  <2>2. CASE Loop(r)
    <3>1. CASE run' = [run EXCEPT ![r].steps = @ + 1, ![r].route = 1]
      <4>1. run' = [run EXCEPT ![r] = [[run[r] EXCEPT !.steps = @ + 1]
                                        EXCEPT !.route = 1]]
        BY <3>1 DEF TypeOK
      <4> QED
        BY <4>1 DEF TypeOK, Run
    <3>2. ASSUME NEW traj, NEW c, Leave(r, traj, "needs_human", c)
          PROVE  run'[r].status = "cancelled" => stop[r]
      BY <2>1, <3>2
    <3> QED
      BY <2>2, <3>1, <3>2 DEF Loop
  <2>3. CASE Route(r) \/ Send(r)
    BY <2>1, <2>3 DEF Route, Send, EndedByModel
  <2>4. CASE CallCancelled(r) \/ CallUnavailable(r)
    <3>1. CASE run' = [run EXCEPT ![r].route = @ + 1]
      BY <3>1 DEF TypeOK, Run
    <3> QED
      BY <2>1, <2>4, <3>1 DEF CallCancelled, CallUnavailable, EndedByModel
  <2>5. CASE AnswerInvalid(r)
    <3>1. CASE run' = [run EXCEPT ![r].traj = Acted(r),
                                  ![r].invalid = run[r].invalid + 1]
      <4>1. run' = [run EXCEPT ![r] = [[run[r] EXCEPT !.traj = Acted(r)]
                                        EXCEPT !.invalid = run[r].invalid + 1]]
        BY <3>1 DEF TypeOK
      <4> QED
        BY <4>1 DEF TypeOK, Run
    <3> QED
      BY <2>1, <2>5, <3>1 DEF AnswerInvalid
  <2>6. CASE AnswerAction(r)
    <3> DEFINE intent == [run[r].traj EXCEPT !.pending = TRUE]
    <3>1. ASSUME NEW act, run' = [run EXCEPT ![r].traj = intent, ![r].act = act,
                                             ![r].invalid = 0]
          PROVE  run'[r].status = run[r].status
      <4> HIDE DEF intent
      <4>1. run' = [run EXCEPT ![r] = [[[run[r] EXCEPT !.traj = intent]
                                        EXCEPT !.act = act] EXCEPT !.invalid = 0]]
        BY <3>1 DEF TypeOK
      <4> QED
        BY <4>1 DEF TypeOK, Run
    <3> QED
      BY <2>1, <2>6, <3>1 DEF AnswerAction
  <2> QED
    BY <2>2, <2>3, <2>4, <2>5, <2>6 DEF Ask
<1>3. \A t \in Tasks \ {Task(r)} : disk'[t] = disk[t]
  BY <1>1 DEF AskStep, TypeOK
<1> QED
  BY <1>1, <1>2, <1>3, EffectPlain DEF AskStep, Asking, InTask

LEMMA EffectAct == ASSUME TypeOK, NEW r \in Runners, Act(r) PROVE Effect(r)
<1>0. Task(r) \in Tasks /\ run[r] \in Run
  BY DEF TypeOK, Run, Task
<1>1. CASE Dispatch(r)
  BY <1>1, EffectPlain DEF Dispatch, Step, InTask, TypeOK
<1>2. ASSUME NEW traj, NEW s, NEW c, Leave(r, traj, s, c),
             s = "cancelled" => stop[r], pc[r] \in InTask, \A t \in Tasks \ {Task(r)} : disk'[t] = disk[t],
             UNCHANGED <<recorded, stop>>
      PROVE  Effect(r)
  BY <1>2, LeaveDoes, LeaveStatus, EffectPlain DEF TypeOK, Task
<1>3. ASSUME NEW traj, NEW to \in {"loop", "contract"}, Goto(r, to), Keep(r, traj),
             pc[r] \in InTask, \A t \in Tasks \ {Task(r)} : disk'[t] = disk[t],
             UNCHANGED <<recorded, stop>>
      PROVE  Effect(r)
  BY <1>0, <1>3, EffectPlain DEF Keep, Goto, TypeOK, Run
<1>4. CASE Observe(r)
  <2>1. pc[r] \in InTask /\ UNCHANGED <<recorded, stop>>
        /\ \A t \in Tasks \ {Task(r)} : disk'[t] = disk[t]
    BY <1>4, SetsElsewhere DEF Observe, InTask
  <2> QED
    BY <1>2, <1>3, <1>4, <2>1 DEF Observe
<1>5. CASE Contract(r)
  <2>1. pc[r] \in InTask /\ UNCHANGED <<recorded, stop>>
        /\ \A t \in Tasks \ {Task(r)} : disk'[t] = disk[t]
    BY <1>5, SetsElsewhere DEF Contract, InTask
  <2> QED
    BY <1>2, <1>3, <1>5, <2>1 DEF Contract, Statuses
<1>6. CASE ReflectionEnds(r)
  <2>1. pc[r] \in InTask /\ UNCHANGED <<recorded, stop>>
    BY <1>6 DEF ReflectionEnds, InTask
  <2>2. ASSUME NEW s, NEW c, EndedByModel(r, s, c), s = "cancelled" => stop[r]
        PROVE  Effect(r)
    <3>1. Save(Task(r), Acted(r), FALSE) /\ Leave(r, Acted(r), s, c)
      BY <2>2 DEF EndedByModel
    <3>2. \A t \in Tasks \ {Task(r)} : disk'[t] = disk[t]
      BY <3>1, SetsElsewhere
    <3> QED
      BY <1>2, <2>1, <2>2, <3>1, <3>2
  <2>3. CASE stop[r] /\ EndedByModel(r, "cancelled", TRUE)
    BY <2>2, <2>3
  <2>4. CASE EndedByModel(r, "needs_human", FALSE)
    BY <2>2, <2>4
  <2> QED
    BY <1>6, <2>3, <2>4 DEF ReflectionEnds
<1> QED
  BY <1>1, <1>4, <1>5, <1>6 DEF Act

LEMMA EffectFinish == ASSUME TypeOK, NEW r \in Runners, Finish(r) PROVE Effect(r)
<1>0. Task(r) \in Tasks /\ run[r] \in Run
  BY DEF TypeOK, Run, Task
<1>1. CASE Verify(r)
  BY <1>1, EffectPlain DEF Verify, Goto, InTask, Ending, TypeOK
<1>2. CASE Test(r)
  BY <1>0, <1>2, EffectPlain DEF Test, Step, InTask, Ending, TypeOK, Run
<1>3. CASE Deliver(r)
  BY <1>0, <1>3, EffectPlain DEF Deliver, Step, InTask, Ending, TypeOK, Run
<1>4. CASE Persist(r)
  <2>1. /\ pc[r] = "persist" /\ pc' = [pc EXCEPT ![r] = "clear"]
        /\ UNCHANGED <<run, disk, stop>>
        /\ recorded' = [recorded EXCEPT ![Task(r)] =
                          [known |-> run[r].traj.known, status |-> run[r].status]]
    BY <1>4 DEF Persist, Step
  <2>2. [known |-> run[r].traj.known, status |-> run[r].status] \in Record
    BY <1>0 DEF Run, Trajectory, Record
  <2>3. /\ recorded'[Task(r)] # None /\ recorded'[Task(r)].status = run[r].status
        /\ \A t \in Tasks \ {Task(r)} : recorded'[t] = recorded[t]
    BY <1>0, <2>1, <2>2 DEF TypeOK
  <2> QED
    BY <2>1, <2>3 DEF Effect, InTask, Ending, TypeOK
<1>5. CASE Clear(r)
  BY <1>0, <1>5 DEF Clear, Step, Effect, InTask, Asking, Ending, TypeOK
<1> QED
  BY <1>1, <1>2, <1>3, <1>4, <1>5 DEF Finish

LEMMA FreshTask == ASSUME IndInv, NEW r \in Runners, pc[r] \in Fresh
                   PROVE  run[r].task = r
<1>1. run[r] = NewRun(r, NewTrajectory(r))
  BY DEF IndInv, NewTask
<1> QED
  BY <1>1 DEF NewRun

LEMMA EffectWork == ASSUME IndInv, TypeOK', NEW r \in Runners, Work(r) PROVE Effect(r)
<1>0. Task(r) \in Tasks /\ run[r] \in Run /\ TypeOK
  BY DEF IndInv, TypeOK, Run, Task
<1>1. CASE Prepare(r)
  <2>1. pc[r] = "prepare" /\ UNCHANGED <<recorded, stop>> /\ Task(r) = r
    BY <1>1, FreshTask DEF Prepare, Fresh, Task
  <2>2. \A t \in Tasks \ {Task(r)} : disk'[t] = disk[t]
    <3>1. Save(Task(r), run[r].traj, FALSE)
      BY <1>1, <2>1 DEF Prepare
    <3> QED
      BY <1>0, <3>1, SetsElsewhere
  <2>3. CASE Goto(r, "loop") /\ UNCHANGED run
    BY <1>0, <2>1, <2>2, <2>3, EffectPlain DEF Goto, TypeOK
  <2>4. ASSUME NEW traj, Goto(r, "loop"), Keep(r, traj) PROVE Effect(r)
    BY <1>0, <2>1, <2>2, <2>4, EffectPlain DEF Goto, Keep, TypeOK, Run
  <2>5. CASE Leave(r, Acted(r), "needs_human", FALSE)
    <3>1. run'[r].status = "cancelled" => stop[r]
      BY <1>0, <2>5, LeaveStatus
    <3>2. /\ pc' = [pc EXCEPT ![r] = "verify"] /\ run'[r].task = run[r].task
          /\ \A q \in Runners \ {r} : run'[q] = run[q]
      BY <1>0, <2>5, LeaveDoes DEF Task
    <3> QED
      BY <1>0, <2>1, <2>2, <3>1, <3>2, EffectPlain DEF TypeOK
  <2> QED
    BY <1>1, <2>3, <2>4, <2>5 DEF Prepare
<1>2. CASE Load(r)
  <2>1. /\ pc[r] = "load" /\ UNCHANGED <<disk, recorded, stop>>
        /\ \/ pc' = [pc EXCEPT ![r] = "closing"] /\ Forget(r)
           \/ /\ disk[Task(r)] # None /\ pc' = [pc EXCEPT ![r] = "loop"]
              /\ Keep(r, [disk[Task(r)] EXCEPT !.dry = @ \/ run[r].traj.dry])
    BY <1>2 DEF Load, Goto
  <2>2. /\ \A q \in Runners \ {r} : run'[q] = run[q]
        /\ run'[r].task \in {run[r].task, r}
        /\ run'[r].status = "cancelled" => run[r].status = "cancelled"
    BY <1>0, <2>1 DEF Forget, NewRun, Keep, TypeOK, Run
  <2>3. pc'[r] = "loop" => run'[r].task = run[r].task
    BY <1>0, <2>1 DEF Keep, TypeOK, Run
  <2> QED
    BY <1>0, <2>1, <2>2, <2>3 DEF Effect, InTask, Asking, Ending, TypeOK
<1>3. CASE Release(r)
  <2>1. /\ pc[r] \in {"leaving", "closing"} /\ UNCHANGED <<disk, recorded, stop>>
        /\ \/ pc[r] = "leaving" /\ pc' = [pc EXCEPT ![r] = "returned"] /\ Result(r)
           \/ pc' = [pc EXCEPT ![r] = "raised"] /\ Forget(r)
    BY <1>3 DEF Release, Step
  <2>2. CASE pc[r] = "leaving" /\ pc' = [pc EXCEPT ![r] = "returned"] /\ Result(r)
    <3>1. run'[r].status = run[r].status /\ run'[r].task = r
          /\ \A q \in Runners \ {r} : run'[q] = run[q]
      BY <1>0, <2>2 DEF Result, NewRun, TypeOK
    <3> QED
      BY <1>0, <2>1, <2>2, <3>1 DEF Effect, InTask, Asking, Ending, TypeOK
  <2>3. CASE pc' = [pc EXCEPT ![r] = "raised"] /\ Forget(r)
    <3>1. run'[r].status = "needs_human" /\ run'[r].task = r
          /\ \A q \in Runners \ {r} : run'[q] = run[q]
      BY <1>0, <2>3 DEF Forget, NewRun, TypeOK
    <3> QED
      BY <1>0, <2>1, <2>3, <3>1 DEF Effect, InTask, Asking, Ending, TypeOK
  <2> QED
    BY <2>1, <2>2, <2>3
<1> QED
  BY <1>0, <1>1, <1>2, <1>3, EffectAsk, EffectAct, EffectFinish DEF Work

LEMMA EffectRaise == ASSUME IndInv, NEW r \in Runners, Raise(r) PROVE Effect(r)
<1>1. /\ pc' = [pc EXCEPT ![r] = "closing"] /\ UNCHANGED <<disk, recorded, stop>>
      /\ run'[r].status = "needs_human" /\ run'[r].task = r
      /\ \A q \in Runners \ {r} : run'[q] = run[q]
  BY DEF Raise, Goto, Forget, NewRun, IndInv, TypeOK
<1> QED
  BY <1>1 DEF Effect, InTask, Asking, Ending, IndInv, TypeOK

-------------------------------------------------------------------------------
(* What a finished run's trajectory says, and who asked for a cancelled one. A *)
(* job's own run is never a resumed one, and once it has returned its          *)
(* checkpoint is gone, so nobody can take up its task again.                   *)
Answered(j) ==
  /\ run[j].task = j
  /\ run[j].status = "cancelled" => stop[j]
  /\ pc[j] \in {"clear", "leaving", "returned"} =>
       recorded[j] # None /\ recorded[j].status = run[j].status
  /\ pc[j] \in {"leaving", "returned"} => disk[j] = None
  /\ pc[j] = "returned" => \A r \in Runners : pc[r] \in InTask => run[r].task # j

LEMMA AnsweredByRun ==
  ASSUME IndInv, IndInv', NEW j \in Jobs, Answered(j), NEW r \in Runners,
         pc[r] \in Live, Effect(r)
  PROVE  Answered(j)'
<1> USE DEF Jobs, Tasks
<1>0. j \in Runners /\ Task(r) = run[r].task
  BY DEF Task
<1>1. CASE r = j
  <2>1. run'[j].task = j /\ Task(r) = j
    BY <1>0, <1>1 DEF Answered, Effect
  <2>2. run'[j].status = "cancelled" => stop'[j]
    BY <1>1 DEF Answered, Effect
  <2>3. pc'[j] = "clear" => recorded'[j] # None /\ recorded'[j].status = run'[j].status
    BY <1>1, <2>1 DEF Effect
  <2>4. pc'[j] = "leaving" =>
          recorded'[j] # None /\ recorded'[j].status = run'[j].status /\ disk'[j] = None
    BY <1>1, <2>1 DEF Effect, Answered
  <2>5. pc'[j] = "returned" =>
          /\ recorded'[j] # None /\ recorded'[j].status = run'[j].status
          /\ disk'[j] = None
    BY <1>1, <2>1 DEF Effect, Answered, InTask, Asking, Ending
  <2>6. pc'[j] = "returned" => \A q \in Runners : pc'[q] \in InTask => run'[q].task # j
    <3> SUFFICES ASSUME pc'[j] = "returned", NEW q \in Runners, pc'[q] \in InTask
                 PROVE  FALSE
      OBVIOUS
    <3>1. q # j
      BY DEF InTask, Asking, Ending
    <3>2. pc[q] \in Live
      BY <1>1, <3>1 DEF Effect, InTask, Asking, Ending, Live, Inside
    <3> QED
      BY <1>1, <3>1, <3>2, Mutex
  <2> QED
    BY <2>1, <2>2, <2>3, <2>4, <2>5, <2>6 DEF Answered
<1>2. CASE r # j
  <2>1. pc'[j] = pc[j] /\ run'[j] = run[j] /\ stop'[j] = stop[j]
    BY <1>0, <1>2 DEF Effect
  <2>2. pc[j] \notin {"clear", "leaving"}
    BY <1>0, <1>2, Mutex DEF Live, Inside
  <2>3. pc[j] = "returned" => disk'[j] = disk[j] /\ recorded'[j] = recorded[j]
    <3> SUFFICES ASSUME pc[j] = "returned"
                 PROVE  disk'[j] = disk[j] /\ recorded'[j] = recorded[j]
      OBVIOUS
    <3>1. CASE run[r].task # j
      BY <1>0, <3>1 DEF Effect
    <3>2. CASE run[r].task = j
      <4>1. pc[r] \notin InTask
        BY <3>2 DEF Answered
      <4>2. pc[r] # "prepare"
        BY <1>2, <3>2, FreshTask DEF Fresh
      <4> QED
        BY <4>1, <4>2 DEF Effect
    <3> QED
      BY <3>1, <3>2
  <2>4. pc[j] = "returned" => \A q \in Runners : pc'[q] \in InTask => run'[q].task # j
    <3> SUFFICES ASSUME pc[j] = "returned", NEW q \in Runners, pc'[q] \in InTask
                 PROVE  run'[q].task # j
      OBVIOUS
    <3>1. CASE q # r
      BY <3>1 DEF Effect, Answered
    <3>2. CASE q = r
      <4>1. run'[q].task = run[q].task
        BY <3>2 DEF Effect
      <4>2. CASE pc[r] \in InTask
        BY <3>2, <4>1, <4>2 DEF Answered
      <4>3. CASE pc[r] = "prepare"
        BY <1>2, <3>2, <4>1, <4>3, FreshTask DEF Fresh
      <4>4. CASE pc[r] = "load" /\ disk[Task(r)] # None
        BY <1>0, <3>2, <4>1, <4>4 DEF Answered
      <4> QED
        BY <3>2, <4>2, <4>3, <4>4 DEF Effect
    <3> QED
      BY <3>1, <3>2
  <2> QED
    BY <2>1, <2>2, <2>3, <2>4 DEF Answered
<1> QED
  BY <1>1, <1>2

(* Runners that enter or are killed: memory shrinks, nothing on disk changes.  *)
LEMMA AnsweredByOther ==
  ASSUME IndInv, NEW j \in Jobs, Answered(j), UNCHANGED <<disk, recorded>>,
         stop[j] => stop'[j],
         \A r \in Runners :
           \/ pc'[r] = pc[r] /\ run'[r] = run[r]
           \/ /\ pc'[r] \in Outside \ {"returned"}
              /\ r = j => run'[r].task = j /\ run'[r].status = "needs_human"
  PROVE  Answered(j)'
<1>1. j \in Runners
  BY DEF Jobs
<1> QED
  BY <1>1 DEF Answered, Outside, InTask, Asking, Ending

LEMMA AnsweredStep == ASSUME IndInv, IndInv', [Next]_vars, NEW j \in Jobs, Answered(j)
                      PROVE  Answered(j)'
<1>0. TypeOK /\ TypeOK' /\ j \in Runners
  BY DEF IndInv, Jobs
<1>1. ASSUME NEW r \in Runners, Work(r) \/ Raise(r) PROVE Answered(j)'
  <2>1. Effect(r)
    BY <1>0, <1>1, EffectWork, EffectRaise
  <2>2. pc[r] \in Live
    BY <1>1 DEF Work, Ask, Act, Finish, Prepare, Load, Loop, Route, Send, CallCancelled,
       CallUnavailable, AnswerInvalid, AnswerAction, Dispatch, ReflectionEnds, Observe, Contract,
       Verify, Test, Deliver, Persist, Clear, Release, Raise, Step, Live, Inside
  <2> QED
    BY <2>1, <2>2, AnsweredByRun
<1>2. ASSUME NEW r \in Runners, Begin(r) PROVE Answered(j)'
  <2>1. /\ UNCHANGED <<run, disk, recorded, stop>>
        /\ pc[r] = "idle" /\ pc'[r] \in {"prepare", "raised"}
        /\ \A q \in Runners \ {r} : pc'[q] = pc[q]
    BY <1>0, <1>2 DEF Begin, Acquire, Goto, TypeOK
  <2>2. r = j => run[j].task = j /\ run[j].status = "needs_human"
    <3>1. pc[r] = "idle" => run[r] = NewRun(r, NewTrajectory(r))
      BY DEF IndInv, NewTask, Fresh
    <3> QED
      BY <2>1, <3>1 DEF NewRun
  <2> QED
    BY <1>0, <2>1, <2>2, AnsweredByOther DEF Outside
<1>3. ASSUME NEW r \in Runners, BeginResume(r) PROVE Answered(j)'
  <2>1. PICK t \in Tasks \ {r} : /\ Acquire(r, "load")
                                 /\ run' = [run EXCEPT ![r].task = t]
    BY <1>3 DEF BeginResume
  <2>2. /\ UNCHANGED <<disk, recorded, stop>> /\ r # j
        /\ pc'[r] \in {"load", "raised"}
        /\ \A q \in Runners \ {r} : pc'[q] = pc[q] /\ run'[q] = run[q]
    BY <1>0, <1>3, <2>1 DEF BeginResume, Jobs, Acquire, Goto, TypeOK
  <2> QED
    BY <1>0, <2>2, AnsweredByOther DEF Outside
<1>4. ASSUME NEW r \in Runners, RequestStop(r) PROVE Answered(j)'
  BY <1>0, <1>4, AnsweredByOther DEF RequestStop, TypeOK
<1>5. ASSUME NEW p \in Processes, Kill(p) PROVE Answered(j)'
  <2>1. /\ UNCHANGED <<disk, recorded, stop>>
        /\ \A r \in Runners :
             \/ pc'[r] = pc[r] /\ run'[r] = run[r]
             \/ pc'[r] = "killed" /\ run'[r] = NewRun(r, NewTrajectory(r))
    BY <1>5 DEF Kill
  <2>2. /\ NewRun(j, NewTrajectory(j)).task = j
        /\ NewRun(j, NewTrajectory(j)).status = "needs_human"
    BY DEF NewRun
  <2> QED
    BY <1>0, <2>1, <2>2, AnsweredByOther DEF Outside
<1>6. CASE UNCHANGED vars
  BY <1>6 DEF vars, Answered
<1> QED
  BY <1>1, <1>2, <1>3, <1>4, <1>5, <1>6 DEF Next

-------------------------------------------------------------------------------
(* A job's status follows from where its thread is; a final one is the run's,  *)
(* or cancelled for a reason.                                                  *)
Says(j, s) == \/ s = run[j].status
              \/ s = "cancelled" /\ stop[j] /\ run[j].status # "completed"

Placed(j) ==
  /\ thread[j] \in {"none", "check", "start"} => pc[j] = "idle"
  /\ thread[j] = "none" => status[j] = "none"
  /\ thread[j] \in {"check", "start"} => status[j] \in {"queued", "cancelling"}
  /\ thread[j] \in {"run", "report"} => status[j] \in {"running", "cancelling"}
  /\ thread[j] = "report" => pc[j] = "returned" /\ Says(j, verdict[j])
  /\ thread[j] = "over" =>
       /\ status[j] \in Terminal
       /\ \/ status[j] = "failed"
          \/ pc[j] = "returned" /\ Says(j, status[j])
          \/ pc[j] = "idle" /\ status[j] = "cancelled" /\ stop[j]
  /\ thread[j] = "dead" => status[j] = "gone"
  /\ thread[j] \in {"none", "check", "start", "run", "report", "over", "dead"}

JobsTyped == status \in [Jobs -> {"none", "queued", "running", "cancelling", "gone"}
                                 \cup Terminal]
             /\ DOMAIN thread = Jobs /\ DOMAIN verdict = Jobs

JobInv == /\ IndInv /\ JobsTyped
          /\ \A j \in Jobs : Answered(j) /\ Placed(j)

THEOREM JobInit == GatewayInit => JobInv
<1> SUFFICES ASSUME GatewayInit PROVE JobInv
  OBVIOUS
<1>1. IndInv
  BY InitInv DEF GatewayInit
<1>2. JobsTyped
  BY DEF GatewayInit, JobsTyped
<1>3. ASSUME NEW j \in Jobs PROVE Answered(j) /\ Placed(j)
  BY DEF GatewayInit, Init, Answered, Placed, NewRun, Jobs, InTask, Asking, Ending
<1> QED
  BY <1>1, <1>2, <1>3 DEF JobInv

(* Every step of the gateway is a step of the runtime, or none.                *)
LEMMA GatewaySteps == GatewayNext => [Next]_vars
<1> SUFFICES ASSUME GatewayNext PROVE [Next]_vars
  OBVIOUS
<1>1. ASSUME NEW j \in Jobs, Submit(j) \/ CheckStop(j) \/ SetRunning(j) \/ Judge(j)
                              \/ Report(j) \/ Fail(j)
      PROVE  UNCHANGED vars
  BY <1>1 DEF Submit, CheckStop, SetRunning, Judge, Report, Fail
<1>2. ASSUME NEW j \in Jobs, RunTask(j) \/ Stop(j) PROVE Next
  BY <1>2 DEF RunTask, Stop, Next, Jobs
<1>3. ASSUME NEW r \in Runners, CommandLine(r) PROVE Next
  BY <1>3 DEF CommandLine, Next
<1>4. ASSUME NEW p \in Processes, KillProcess(p) PROVE Next
  BY <1>4 DEF KillProcess, Next
<1> QED
  BY <1>1, <1>2, <1>3, <1>4 DEF GatewayNext, RunJob

(* A runner's step leaves the other runners where they are.                    *)
LEMMA OthersStay ==
  ASSUME IndInv, TypeOK', NEW r \in Runners,
         Begin(r) \/ BeginResume(r) \/ Work(r) \/ Raise(r), NEW q \in Runners \ {r}
  PROVE  pc'[q] = pc[q] /\ run'[q] = run[q] /\ stop' = stop
<1>1. CASE Work(r) \/ Raise(r)
  BY <1>1, EffectWork, EffectRaise DEF Effect
<1>2. CASE Begin(r) \/ BeginResume(r)
  BY <1>2 DEF Begin, BeginResume, Acquire, Goto, IndInv, TypeOK
<1> QED
  BY <1>1, <1>2

LEMMA PlacedStep == ASSUME JobInv, IndInv', GatewayNext, NEW j \in Jobs
                    PROVE  Placed(j)' /\ JobsTyped'
<1>0. TypeOK /\ TypeOK' /\ j \in Runners /\ Placed(j) /\ JobsTyped /\ IndInv
      /\ run[j].status \in Terminal
  BY DEF JobInv, IndInv, Jobs, TypeOK, Run, Statuses, Terminal
<1>1. ASSUME UNCHANGED jobVars, pc'[j] = pc[j], run'[j] = run[j], stop[j] => stop'[j]
      PROVE  Placed(j)' /\ JobsTyped'
  BY <1>0, <1>1 DEF Placed, Says, JobsTyped, jobVars
<1> DEFINE Moved(k) == \A i \in Jobs \ {k} : thread'[i] = thread[i] /\ status'[i] = status[i]
                                            /\ verdict'[i] = verdict[i]
<1>2. ASSUME NEW k \in Jobs, Moved(k), UNCHANGED <<pc, run, stop>>, JobsTyped',
             k = j => Placed(j)'
      PROVE  Placed(j)' /\ JobsTyped'
  BY <1>0, <1>2 DEF Placed, Says
<1>3. ASSUME NEW k \in Jobs, Submit(k) PROVE Placed(j)' /\ JobsTyped'
  <2>1. /\ thread[k] = "none" /\ thread'[k] = "check" /\ status'[k] = "queued"
        /\ UNCHANGED <<pc, run, stop>> /\ Moved(k) /\ JobsTyped'
    BY <1>0, <1>3 DEF Submit, Thread, SetStatus, JobsTyped, vars
  <2>2. k = j => Placed(j)'
    BY <1>0, <2>1 DEF Placed
  <2> QED
    BY <1>2, <2>1, <2>2
<1>4. ASSUME NEW k \in Jobs, CheckStop(k) PROVE Placed(j)' /\ JobsTyped'
  <2>1. /\ thread[k] = "check" /\ UNCHANGED <<pc, run, stop>> /\ Moved(k) /\ JobsTyped'
        /\ \/ stop[k] /\ thread'[k] = "over" /\ status'[k] = "cancelled"
           \/ thread'[k] = "start" /\ status'[k] = status[k]
    BY <1>0, <1>4 DEF CheckStop, Thread, SetStatus, JobsTyped, vars, Terminal
  <2>2. k = j => Placed(j)'
    BY <1>0, <2>1 DEF Placed, Terminal
  <2> QED
    BY <1>2, <2>1, <2>2
<1>5. ASSUME NEW k \in Jobs, SetRunning(k) PROVE Placed(j)' /\ JobsTyped'
  <2>1. /\ thread[k] = "start" /\ thread'[k] = "run" /\ status'[k] = "running"
        /\ UNCHANGED <<pc, run, stop>> /\ Moved(k) /\ JobsTyped'
    BY <1>0, <1>5 DEF SetRunning, Thread, SetStatus, JobsTyped, vars
  <2>2. k = j => Placed(j)'
    BY <1>0, <2>1 DEF Placed
  <2> QED
    BY <1>2, <2>1, <2>2
<1>6. ASSUME NEW k \in Jobs, Judge(k) PROVE Placed(j)' /\ JobsTyped'
  <2>1. /\ pc[k] = "returned" /\ thread[k] = "run" /\ thread'[k] = "report"
        /\ verdict'[k] = IF stop[k] /\ run[k].status # "completed" THEN "cancelled"
                         ELSE run[k].status
        /\ status' = status /\ UNCHANGED <<pc, run, stop>> /\ Moved(k) /\ JobsTyped'
    BY <1>0, <1>6 DEF Judge, Thread, JobsTyped, vars
  <2>2. k = j => Placed(j)'
    BY <1>0, <2>1 DEF Placed, Says
  <2> QED
    BY <1>2, <2>1, <2>2
<1>7. ASSUME NEW k \in Jobs, Report(k) PROVE Placed(j)' /\ JobsTyped'
  <2>0. Placed(k) /\ run[k].status \in Terminal
    BY <1>0 DEF JobInv, TypeOK, Run, Jobs, Statuses, Terminal
  <2>1. /\ thread[k] = "report" /\ thread'[k] = "over" /\ status'[k] = verdict[k]
        /\ UNCHANGED <<pc, run, stop>> /\ Moved(k)
        /\ status' = [status EXCEPT ![k] = verdict[k]]
        /\ DOMAIN thread' = Jobs /\ DOMAIN verdict' = Jobs
    BY <1>0, <1>7 DEF Report, Thread, SetStatus, JobsTyped, vars
  <2>2. pc[k] = "returned" /\ Says(k, verdict[k]) /\ verdict[k] \in Terminal
    BY <2>0, <2>1 DEF Placed, Says, Terminal
  <2>3. JobsTyped'
    BY <1>0, <2>1, <2>2 DEF JobsTyped
  <2>4. k = j => Placed(j)'
    BY <2>1, <2>2 DEF Placed, Says
  <2> QED
    BY <1>2, <2>1, <2>3, <2>4
<1>8. ASSUME NEW k \in Jobs, Fail(k) PROVE Placed(j)' /\ JobsTyped'
  <2>1. /\ thread[k] = "run" /\ thread'[k] = "over" /\ status'[k] = "failed"
        /\ UNCHANGED <<pc, run, stop>> /\ Moved(k) /\ JobsTyped'
    BY <1>0, <1>8 DEF Fail, Thread, SetStatus, JobsTyped, vars, Terminal
  <2>2. k = j => Placed(j)'
    BY <1>0, <2>1 DEF Placed, Terminal
  <2> QED
    BY <1>2, <2>1, <2>2
<1>9. ASSUME NEW k \in Jobs, Stop(k) PROVE Placed(j)' /\ JobsTyped'
  <2>1. /\ UNCHANGED <<pc, run, thread, verdict>> /\ Moved(k)
        /\ \A i \in Jobs : stop[i] => stop'[i]
        /\ status'[k] = IF status[k] \in {"queued", "running"} THEN "cancelling"
                        ELSE status[k]
        /\ status' = [status EXCEPT ![k] = status'[k]]
    BY <1>0, <1>9 DEF Stop, RequestStop, SetStatus, JobsTyped, TypeOK, Jobs
  <2>2. status[k] \in {"none", "queued", "running", "cancelling", "gone"} \cup Terminal
    BY <1>0 DEF JobsTyped
  <2>3. JobsTyped'
    BY <1>0, <2>1, <2>2 DEF JobsTyped
  <2>4. status'[j] = status[j] \/ (status[j] \in {"queued", "running"}
                                  /\ status'[j] = "cancelling")
    BY <2>1
  <2>5. Placed(j)'
    BY <1>0, <2>1, <2>4 DEF Placed, Says, Terminal
  <2> QED
    BY <2>3, <2>5
<1>10. ASSUME NEW k \in Jobs, RunTask(k) PROVE Placed(j)' /\ JobsTyped'
  <2>1. /\ thread[k] = "run" /\ UNCHANGED jobVars /\ k \in Runners
        /\ Begin(k) \/ Work(k) \/ Raise(k)
    BY <1>10 DEF RunTask, Jobs
  <2>2. CASE k = j
    BY <1>0, <2>1, <2>2 DEF Placed, JobsTyped, jobVars
  <2>3. CASE k # j
    BY <1>0, <1>1, <2>1, <2>3, OthersStay
  <2> QED
    BY <2>2, <2>3
<1>11. ASSUME NEW r \in Runners \ Jobs, CommandLine(r) PROVE Placed(j)' /\ JobsTyped'
  BY <1>0, <1>1, <1>11, OthersStay DEF CommandLine
<1>12. ASSUME NEW p \in Processes, KillProcess(p) PROVE Placed(j)' /\ JobsTyped'
  <2>1. CASE p = Gateway
    BY <1>0, <1>12, <2>1 DEF KillProcess, Placed, JobsTyped
  <2>2. CASE p # Gateway
    <3>1. UNCHANGED <<verdict, stop>> /\ thread'[j] = thread[j] /\ status'[j] = status[j]
      BY <1>12, <2>2 DEF KillProcess, Kill
    <3>2. pc'[j] = pc[j] /\ run'[j] = run[j]
      BY <1>0, <1>12, <2>2 DEF KillProcess, Kill
    <3>3. JobsTyped'
      BY <1>0, <1>12, <2>2 DEF KillProcess, JobsTyped
    <3> QED
      BY <1>0, <3>1, <3>2, <3>3 DEF Placed, Says
  <2> QED
    BY <2>1, <2>2
<1> QED
  BY <1>3, <1>4, <1>5, <1>6, <1>7, <1>8, <1>9, <1>10, <1>11, <1>12
     DEF GatewayNext, RunJob

THEOREM JobStep == JobInv /\ [GatewayNext]_gatewayVars => JobInv'
<1> SUFFICES ASSUME JobInv, [GatewayNext]_gatewayVars PROVE JobInv'
  OBVIOUS
<1>1. [Next]_vars
  BY GatewaySteps DEF gatewayVars, vars
<1>2. IndInv'
  BY <1>1, StepInv DEF JobInv
<1>3. ASSUME NEW j \in Jobs PROVE Answered(j)'
  BY <1>1, <1>2, AnsweredStep DEF JobInv
<1>4. CASE UNCHANGED gatewayVars
  BY <1>2, <1>3, <1>4 DEF JobInv, gatewayVars, JobsTyped, Placed, Says
<1>5. CASE GatewayNext /\ Jobs # {}
  BY <1>2, <1>3, <1>5, PlacedStep DEF JobInv
<1>6. CASE GatewayNext /\ Jobs = {}
  <2>1. ASSUME UNCHANGED jobVars PROVE JobsTyped'
    BY <2>1 DEF JobInv, JobsTyped, jobVars
  <2>2. ASSUME NEW p \in Processes, KillProcess(p) PROVE JobsTyped'
    BY <2>2 DEF KillProcess, JobInv, JobsTyped
  <2>3. JobsTyped'
    BY <1>6, <2>1, <2>2 DEF GatewayNext, CommandLine
  <2> QED
    BY <1>2, <1>3, <1>6, <2>3 DEF JobInv
<1> QED
  BY <1>4, <1>5, <1>6

THEOREM JobsInductive == GatewaySpec => []JobInv
  BY JobInit, JobStep, PTL DEF GatewaySpec
-------------------------------------------------------------------------------
(* GatewaySpec implements Spec: what AgentRuntimeProofs proves of runs holds   *)
(* of the gateway's jobs and of the command lines beside them.                 *)
THEOREM Refines == GatewaySpec => Spec
<1>1. GatewayInit => Init
  BY DEF GatewayInit
<1>2. [GatewayNext]_gatewayVars => [Next]_vars
  BY GatewaySteps DEF gatewayVars, vars
<1> QED
  BY <1>1, <1>2, PTL DEF GatewaySpec, Spec

(* StatusTruthful: completed and needs_human are what the job's trajectory     *)
(* says, and a cancelled job was asked to stop and did not complete.           *)
THEOREM Truthful == GatewaySpec => []StatusTruthful
<1>1. ASSUME JobInv, NEW j \in Jobs, thread[j] = "over"
      PROVE  /\ status[j] \in {"completed", "needs_human"} =>
                  recorded[j] # None /\ recorded[j].status = status[j]
             /\ status[j] = "cancelled" =>
                  /\ stop[j]
                  /\ recorded[j] # None => recorded[j].status # "completed"
                  /\ recorded[j] = None => effects[j] = {} /\ disk[j] = None
  <2>1. Answered(j) /\ Placed(j) /\ j \in Runners
    BY <1>1 DEF JobInv, Jobs
  <2>2. CASE status[j] = "failed"
    BY <2>2
  <2>3. CASE pc[j] = "returned" /\ Says(j, status[j])
    BY <2>1, <2>3 DEF Answered, Says
  <2>4. CASE pc[j] = "idle" /\ status[j] = "cancelled" /\ stop[j]
    BY <1>1, <2>1, <2>4 DEF JobInv, IndInv, NewTask, Fresh
  <2> QED
    BY <1>1, <2>1, <2>2, <2>3, <2>4 DEF Placed
<1>2. JobInv => StatusTruthful
  BY <1>1 DEF StatusTruthful
<1> QED
  BY <1>2, JobsInductive, PTL

(* TerminalIsFinal: a final status is never replaced.                          *)
THEOREM Final == GatewaySpec => TerminalIsFinal
<1>1. ASSUME JobInv, [GatewayNext]_gatewayVars, NEW j \in Jobs, status[j] \in Terminal
      PROVE  status'[j] \in {status[j], "gone"}
  <2>1. thread[j] = "over" /\ JobsTyped
    BY <1>1 DEF JobInv, Placed, Terminal
  <2>2. CASE UNCHANGED gatewayVars
    BY <2>2 DEF gatewayVars
  <2>3. ASSUME NEW k \in Jobs, Submit(k) \/ RunJob(k) \/ Stop(k)
        PROVE  status'[j] \in {status[j], "gone"}
    BY <1>1, <2>1, <2>3 DEF Submit, RunJob, CheckStop, SetRunning, RunTask, Judge, Report,
       Fail, Stop, Thread, SetStatus, JobsTyped, jobVars, Terminal
  <2>4. ASSUME NEW r \in Runners \ Jobs, CommandLine(r)
        PROVE  status'[j] \in {status[j], "gone"}
    BY <2>4 DEF CommandLine, jobVars
  <2>5. ASSUME NEW p \in Processes, KillProcess(p)
        PROVE  status'[j] \in {status[j], "gone"}
    BY <2>5 DEF KillProcess
  <2> QED
    BY <1>1, <2>2, <2>3, <2>4, <2>5 DEF GatewayNext
<1>2. JobInv /\ [GatewayNext]_gatewayVars =>
        [\A j \in Jobs : status[j] \in Terminal => status'[j] \in {status[j], "gone"}]_gatewayVars
  BY <1>1
<1> QED
  BY <1>2, JobsInductive, PTL DEF GatewaySpec, TerminalIsFinal
================================================================================
