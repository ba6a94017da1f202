---------------------------- MODULE SequentialStream ----------------------------
(* What an online stream promises: the tasks are executed one after the other  *)
(* and each at most once, with the candidate that was approved when the task   *)
(* before it was over, learned from tasks that were over.                      *)
EXTENDS Integers

CONSTANTS Runners, Tasks, Candidates, NoCandidate, NoTask,
          Learned        \* [Candidates -> how long a prefix it was learned from]

VARIABLES completed,     \* number of tasks that are over
          pending,       \* the task that may be executing
          candidate,     \* the approved candidate
          runs           \* executions: who, which task, with which candidate

Init ==
  /\ completed = 0
  /\ pending = NoTask
  /\ candidate = NoCandidate
  /\ runs = {}

Dispatch ==
  /\ pending = NoTask /\ completed < Tasks
  /\ pending' = completed
  /\ UNCHANGED <<completed, candidate, runs>>

Execute(r) ==
  /\ pending # NoTask
  /\ \A x \in runs : x.index # pending /\ x.run # r
  /\ runs' = runs \cup {[run |-> r, index |-> pending, candidate |-> candidate]}
  /\ UNCHANGED <<completed, pending, candidate>>

Complete ==
  /\ \E x \in runs : x.index = pending
  /\ completed' = completed + 1
  /\ pending' = NoTask
  /\ UNCHANGED <<candidate, runs>>

Approve(c) ==
  /\ pending = NoTask
  /\ completed \in 1..(Tasks - 1)
  /\ Learned[c] <= completed
  /\ candidate' = c
  /\ UNCHANGED <<completed, pending, runs>>

Next ==
  \/ Dispatch
  \/ \E r \in Runners : Execute(r)
  \/ Complete
  \/ \E c \in Candidates : Approve(c)

Spec == Init /\ [][Next]_<<completed, pending, candidate, runs>>
================================================================================
