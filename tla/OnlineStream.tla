------------------------------ MODULE OnlineStream ------------------------------
(* OnlineStream (eval/online_stream.py): a ledger of events in one file, each  *)
(* section under the stream's file lock, and processes that call run_next once *)
(* (online_stream_cli.py). The ledger stands here for what _read makes of it.  *)
(* A section is one step: whoever else looks at the ledger takes the lock, and *)
(* a kill leaves what had replaced the file by then.                           *)
EXTENDS OwnedNativeRun

CONSTANTS Tasks,                \* how many tasks the stream has
          Candidates, Learned,  \* [Candidates -> the prefix its sources span]
          NoCandidate, NoTask,
          MaxEvents             \* bound on approvals: they end at this many events

Streamers == Owners \ Claimed

ASSUME StreamAssumption ==
  /\ Tasks \in Nat /\ Learned \in [Candidates -> Nat] /\ MaxEvents \in Nat
  /\ NoCandidate \notin Candidates /\ NoTask \notin Nat

VARIABLES
  completed, pending, candidate,   \* what _read returns
  events,                          \* len(state["events"])
  valid,                           \* _read does not raise
  snapshots,                       \* n for which candidate-n.json exists
  index, using                     \* [Streamers -> the dispatch it has made]

ledger == <<completed, pending, candidate, events, valid>>
streamVars == <<ledger, snapshots, index, using>>
vars == <<pc, leaseVars, runVars, streamVars>>

Init ==
  /\ RunInit
  /\ completed = 0 /\ pending = NoTask /\ candidate = NoCandidate
  /\ events = 0 /\ valid = TRUE
  /\ snapshots = {}
  /\ index = [p \in Streamers |-> NoTask]
  /\ using = [p \in Streamers |-> NoCandidate]

(* accept_candidate: between tasks, with sources from the completed prefix.    *)
Approve(c) ==
  /\ events < MaxEvents
  /\ valid /\ pending = NoTask
  /\ completed > 0 /\ completed < Tasks
  /\ Learned[c] <= completed
  /\ candidate' = c
  /\ events' = events + 1
  /\ UNCHANGED <<pc, leaseVars, runVars, completed, pending, valid, snapshots, index, using>>

-------------------------------------------------------------------------------
(* run_next, first section: the candidate's snapshot, then the dispatch.       *)
Dispatchable ==
  /\ valid /\ pending = NoTask /\ completed < Tasks
  /\ candidate # NoCandidate => events \notin snapshots

Snapshot == snapshots' = IF candidate = NoCandidate THEN snapshots ELSE snapshots \cup {events}

Refuse(p) ==
  /\ ~Dispatchable
  /\ Start(p, "ended")
  /\ UNCHANGED <<leaseVars, runVars, streamVars>>

(* Mutant: the index is the number of events, approvals included.              *)
Dispatch_ByEvents(p) ==
  /\ Dispatchable
  /\ Start(p, "lease")
  /\ pending' = events
  /\ events' = events + 1
  /\ Snapshot
  /\ index' = [index EXCEPT ![p] = events]
  /\ using' = [using EXCEPT ![p] = candidate]
  /\ UNCHANGED <<leaseVars, runVars, completed, candidate, valid>>

Dispatch(p) ==
  /\ Dispatchable
  /\ Start(p, "lease")
  /\ pending' = completed
  /\ events' = events + 1
  /\ Snapshot
  /\ index' = [index EXCEPT ![p] = completed]
  /\ using' = [using EXCEPT ![p] = candidate]
  /\ UNCHANGED <<leaseVars, runVars, completed, candidate, valid>>

(* The section fails, or its process is killed in it: after the snapshot, or   *)
(* when the dispatch is in the file although _persist has not returned.        *)
DispatchLost(p) ==
  /\ Dispatchable
  /\ Start(p, "ended")
  /\ \/ pending' = completed /\ events' = events + 1 /\ Snapshot
     \/ UNCHANGED <<pending, events>> /\ (Snapshot \/ UNCHANGED snapshots)
  /\ UNCHANGED <<leaseVars, runVars, completed, candidate, valid, index, using>>

-------------------------------------------------------------------------------
(* run_next, second section. os.replace may have taken effect when _persist    *)
(* raises, and an error before it leaves the ledger as it was.                 *)
Evidence(p) == report[p] \in Executed /\ verified[p]

Append(p, to) ==
  /\ Step(p, "returned", to)
  /\ Evidence(p)
  /\ valid /\ pending = index[p]
  /\ completed' = completed + 1
  /\ pending' = NoTask
  /\ events' = events + 1
  /\ UNCHANGED <<leaseVars, runVars, candidate, valid, snapshots, index, using>>

RecordCompleted(p) == p \in Streamers /\ (Append(p, "ended") \/ Append(p, "raised"))

RecordFails(p) ==
  /\ p \in Streamers
  /\ Step(p, "returned", "raised")
  /\ UNCHANGED <<leaseVars, runVars, streamVars>>

(* Mutant: an unknown outcome gives the task back, to be dispatched again.     *)
RecordUnknown_Retries(p) ==
  /\ p \in Streamers
  /\ Step(p, "raised", "ended")
  /\ valid
  /\ events' = events + 1
  /\ pending' = NoTask
  /\ UNCHANGED <<leaseVars, runVars, completed, candidate, valid, snapshots, index, using>>

(* except BaseException: the event is appended without a look at what the      *)
(* ledger says is pending, and _read will not have it after a completion.      *)
RecordUnknown(p) ==
  /\ p \in Streamers
  /\ Step(p, "raised", "ended")
  /\ valid
  /\ events' = events + 1
  /\ valid' = (pending = index[p])
  /\ UNCHANGED <<leaseVars, runVars, completed, pending, candidate, snapshots, index, using>>

UnknownLost(p) ==
  /\ p \in Streamers
  /\ Step(p, "raised", "ended")
  /\ UNCHANGED <<leaseVars, runVars, streamVars>>

-------------------------------------------------------------------------------
Settles(p) == RecordCompleted(p) \/ RecordFails(p) \/ RecordUnknown(p) \/ UnknownLost(p)

Next ==
  \/ \E p \in Streamers : Refuse(p) \/ Dispatch(p) \/ DispatchLost(p)
  \/ \E p \in Owners : Settles(p)
  \/ \E p \in Owners : (Starts(p) \/ Works(p) \/ Around(p) \/ Ends(p)) /\ UNCHANGED streamVars
  \/ \E c \in Candidates : Approve(c)

Spec == Init /\ [][Next]_vars

-------------------------------------------------------------------------------
TypeOK ==
  /\ RunTypeOK
  /\ completed \in 0..Tasks
  /\ pending \in 0..Tasks \cup {NoTask}
  /\ candidate \in Candidates \cup {NoCandidate}
  /\ events \in Nat
  /\ valid \in BOOLEAN
  /\ snapshots \subseteq Nat
  /\ index \in [Streamers -> 0..Tasks \cup {NoTask}]
  /\ using \in [Streamers -> Candidates \cup {NoCandidate}]

(* The executions there have been, for the abstract specification.             *)
Executions ==
  {[run |-> p, index |-> index[p], candidate |-> using[p]] : p \in ran \cap Streamers}

Sequential == INSTANCE SequentialStream WITH Runners <- Streamers, runs <- Executions

(* However runners are started, killed or fail to write the ledger, the tasks  *)
(* are executed in order and never twice, each with the candidate that was     *)
(* approved at the boundary before it (online_stream.py:325-378).              *)
Promise == Sequential!Spec

(* A task is only ever completed by an execution that returned with its        *)
(* cleanup verified, and which has left nothing in docker                      *)
(* (online_stream.py:360-362).                                                 *)
CompletedIsClean == \A p \in Streamers :
  index[p] # NoTask /\ index[p] < completed =>
    Evidence(p) /\ life[p] = "closed" /\ ~docker[p] /\ ~child[p]
================================================================================
