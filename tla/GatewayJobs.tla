----------------------------- MODULE GatewayJobs -----------------------------
(* The background jobs of gateway.py: RunJobManager runs each RunJob in a      *)
(* thread of the gateway's process, which calls AgentRuntime.run and hands it  *)
(* the job's cancel_requested. Other runners are praxile run on the command    *)
(* line. Jobs that belong to no chat session.                                  *)
EXTENDS AgentRuntime

CONSTANT Gateway  \* the gateway's process

Jobs == Stoppable

ASSUME GatewayAssumption ==
  /\ Gateway \in Processes
  /\ \A r \in Runners : Home[r] = Gateway <=> r \in Jobs

VARIABLES
  status,  \* [Jobs -> RunJob.status]
  thread,  \* [Jobs -> where _run_job is]
  verdict  \* [Jobs -> the final status it has computed]

jobVars == <<status, thread, verdict>>
gatewayVars == <<lock, pc, run, disk, effects, recorded, stop, late, kills,
                 status, thread, verdict>>

Terminal == {"completed", "failed", "cancelled", "needs_human"}

GatewayInit ==
  /\ Init
  /\ status = [j \in Jobs |-> "none"]
  /\ thread = [j \in Jobs |-> "none"]
  /\ verdict = [j \in Jobs |-> "none"]

Thread(j, from, to) == thread[j] = from /\ thread' = [thread EXCEPT ![j] = to]
SetStatus(j, s) == status' = [status EXCEPT ![j] = s]

(* RunJobManager.start                                                         *)
Submit(j) ==
  /\ Thread(j, "none", "check") /\ SetStatus(j, "queued")
  /\ UNCHANGED <<vars, verdict>>

(* _run_job looks at the stop and then sets the status: a stop in between      *)
(* leaves its flag, not its status.                                            *)
CheckStop(j) ==
  /\ IF stop[j] THEN Thread(j, "check", "over") /\ SetStatus(j, "cancelled")
                ELSE Thread(j, "check", "start") /\ UNCHANGED status
  /\ UNCHANGED <<vars, verdict>>

SetRunning(j) ==
  /\ Thread(j, "start", "run") /\ SetStatus(j, "running")
  /\ UNCHANGED <<vars, verdict>>

RunTask(j) ==
  /\ thread[j] = "run"
  /\ Begin(j) \/ Work(j) \/ Raise(j)
  /\ UNCHANGED jobVars

(* Mutant: whoever asked for a stop is told that the job was cancelled.        *)
Judge_StopWins(j) ==
  /\ pc[j] = "returned" /\ Thread(j, "run", "report")
  /\ verdict' = [verdict EXCEPT ![j] = IF stop[j] THEN "cancelled" ELSE run[j].status]
  /\ UNCHANGED <<vars, status>>

(* The result is in; a run that completed all the same is not cancelled.       *)
Judge(j) ==
  /\ pc[j] = "returned" /\ Thread(j, "run", "report")
  /\ verdict' = [verdict EXCEPT ![j] = IF stop[j] /\ run[j].status # "completed"
                                       THEN "cancelled" ELSE run[j].status]
  /\ UNCHANGED <<vars, status>>

Report(j) ==
  /\ Thread(j, "report", "over") /\ SetStatus(j, verdict[j])
  /\ verdict' = [verdict EXCEPT ![j] = "none"]
  /\ UNCHANGED vars

(* Mutant: the handler records the error and leaves the status.                *)
Fail_ErrorOnly(j) ==
  /\ pc[j] \in {"returned", "raised"} /\ Thread(j, "run", "over")
  /\ UNCHANGED <<vars, status, verdict>>

(* run raised, the lock's TimeoutError included, or its result cannot be read  *)
(* back.                                                                       *)
Fail(j) ==
  /\ pc[j] \in {"returned", "raised"} /\ Thread(j, "run", "over")
  /\ SetStatus(j, "failed")
  /\ UNCHANGED <<vars, verdict>>

(* Mutant: the status shows the request whatever the job has come to.          *)
Stop_Always(j) ==
  /\ thread[j] \notin {"none", "dead"}
  /\ RequestStop(j)
  /\ SetStatus(j, "cancelling")
  /\ UNCHANGED <<thread, verdict>>

(* request_stop                                                                *)
Stop(j) ==
  /\ thread[j] \notin {"none", "dead"}
  /\ RequestStop(j)
  /\ SetStatus(j, IF status[j] \in {"queued", "running"} THEN "cancelling"
                  ELSE status[j])
  /\ UNCHANGED <<thread, verdict>>

CommandLine(r) ==
  /\ Begin(r) \/ BeginResume(r) \/ Work(r) \/ Raise(r)
  /\ UNCHANGED jobVars

(* The jobs live in the gateway's memory.                                      *)
KillProcess(p) ==
  /\ Kill(p)
  /\ thread' = [j \in Jobs |-> IF p = Gateway THEN "dead" ELSE thread[j]]
  /\ status' = [j \in Jobs |-> IF p = Gateway THEN "gone" ELSE status[j]]
  /\ UNCHANGED verdict

RunJob(j) == CheckStop(j) \/ SetRunning(j) \/ RunTask(j) \/ Judge(j) \/ Report(j)
             \/ Fail(j)

GatewayNext == \/ \E j \in Jobs : Submit(j) \/ RunJob(j) \/ Stop(j)
               \/ \E r \in Runners \ Jobs : CommandLine(r)
               \/ \E p \in Processes : KillProcess(p)

GatewaySpec == GatewayInit /\ [][GatewayNext]_gatewayVars

(* The job's thread is started with the job and scheduled; model requests,     *)
(* tools and tests have timeouts, and a loop has MaxSteps steps.               *)
GatewayFair ==
  /\ GatewaySpec
  /\ \A j \in Jobs : WF_gatewayVars(RunJob(j))
  /\ \A r \in Runners \ Jobs : WF_gatewayVars(Work(r) /\ UNCHANGED jobVars)
-------------------------------------------------------------------------------
(* Properties.                                                                 *)

(* StatusTruthful: what a finished job is said to be agrees with what is on    *)
(* disk: completed or needs_human is what its trajectory says, cancelled means *)
(* that a stop was asked for and the run did not complete.                     *)
StatusTruthful == \A j \in Jobs : thread[j] = "over" =>
  /\ status[j] \in {"completed", "needs_human"} =>
       recorded[j] # None /\ recorded[j].status = status[j]
  /\ status[j] = "cancelled" =>
       /\ stop[j]
       /\ recorded[j] # None => recorded[j].status # "completed"
       /\ recorded[j] = None => effects[j] = {} /\ disk[j] = None

(* TerminalIsFinal: a client that has seen a final status will not see         *)
(* another, whatever stop requests arrive afterwards.                          *)
TerminalIsFinal == [][\A j \in Jobs :
  status[j] \in Terminal => status'[j] \in {status[j], "gone"}]_gatewayVars

(* JobEnds: a job comes to a final status, stopped or not, unless the gateway  *)
(* is killed.                                                                  *)
JobEnds == \A j \in Jobs : status[j] = "queued" ~> status[j] \in Terminal \cup {"gone"}
================================================================================
