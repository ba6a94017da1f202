--------------------------- MODULE HarnessPromotion ---------------------------
(* Proposals that change one harness component: shadow validation              *)
(* (validation_lab.py), the checks apply_proposal makes before it takes the    *)
(* flock, the promotion manifest, monitoring and rollback                      *)
(* (bounded_evolution.py, store/proposals.py). How an accept replaces several  *)
(* files is ProposalStore's subject; here it is one step.                      *)
EXTENDS Integers, Sequences

CONSTANTS Proposals, Assets,
          Asset,      \* [Proposals -> Assets]: the file a proposal appends to
          Eligible,   \* proposals whose promotion_eligibility is not refused
          Procs,      \* CLI commands, gateway workers, agent runs
          Duty,       \* [Procs -> what each of them does]
          Absent,
          MaxEdits, MaxOps, MaxFailures   \* bounds on what a behaviour contains

ASSUME PromotionAssumption ==
  /\ Asset \in [Proposals -> Assets] /\ Eligible \subseteq Proposals
  /\ MaxEdits \in Nat /\ Absent \notin Proposals
  /\ Duty \in [Procs -> SUBSET {"validate", "edit", "accept", "reject", "rollback",
                                "monitor", "fail"}]

VARIABLES
  assets,    \* [Assets -> Seq(<<proposal, edition>>)]: the active component
  box,       \* proposals/{pending,accepted,rejected}/<id>.json
  txn,       \* [Proposals -> content the journal keeps, Absent without one]
  manifest,  \* active-manifest.json: the component's entry
  history,   \* its promotion_history, the proposals in it
  pc, cur, mem,   \* [Procs -> next step, proposal in hand, dict in memory]
  copy,      \* [Procs -> the manifest monitor has read]
  validated, \* history: the editions a suite has found validated
  spent      \* operations and failures so far (the bounds)

disk == <<assets, box, txn, manifest, history>>
vars == <<disk, pc, cur, mem, copy, validated, spent>>

(* A component version is a hash of the content: the content itself.           *)
Content == Seq(Proposals \X (0..MaxEdits))
Version == assets

Dirs == {"pending", "accepted", "rejected"}
InboxStatus == {"proposed", "shadow_running", "validated", "inconclusive", "regressed"}
Outcomes == {"validated", "inconclusive", "regressed"}

(* before is what applied_changes keeps.                                       *)
Fresh == [status |-> "proposed", ed |-> 0, base |-> Version, val |-> Absent,
          before |-> <<>>]

Init ==
  /\ assets = [a \in Assets |-> <<>>]
  /\ box = [d \in Dirs |-> [p \in Proposals |-> IF d = "pending" THEN Fresh ELSE Absent]]
  /\ txn = [p \in Proposals |-> Absent]
  /\ manifest = Absent
  /\ history = {}
  /\ pc = [q \in Procs |-> "idle"]
  /\ cur = [q \in Procs |-> Absent]
  /\ mem = [q \in Procs |-> Absent]
  /\ copy = [q \in Procs |-> Absent]
  /\ validated = {}
  /\ spent = [ops |-> 0, failures |-> 0]

Spend(what, bound) == spent[what] < bound /\ spent' = [spent EXCEPT ![what] = @ + 1]

Goto(q, next) == pc' = [pc EXCEPT ![q] = next] /\ UNCHANGED <<cur, mem, copy>>

(* The call returned, raised or was killed: what it held is gone.              *)
Leave(q, next) ==
  /\ pc' = [pc EXCEPT ![q] = next]
  /\ cur' = [cur EXCEPT ![q] = Absent]
  /\ mem' = [mem EXCEPT ![q] = Absent]
  /\ copy' = [copy EXCEPT ![q] = Absent]

(* A request finds its proposal and keeps the dict.                            *)
Load(q, duty, p, rec, next) ==
  /\ pc[q] = "idle" /\ duty \in Duty[q] /\ Spend("ops", MaxOps)
  /\ pc' = [pc EXCEPT ![q] = next]
  /\ cur' = [cur EXCEPT ![q] = p]
  /\ mem' = [mem EXCEPT ![q] = rec]
  /\ UNCHANGED <<disk, copy, validated>>

Pending(p) == box["pending"][p] # Absent /\ box["pending"][p].status \in InboxStatus

-------------------------------------------------------------------------------
(* Validation.                                                                 *)

(* find_proposal without a status: pending first, then accepted, rejected.     *)
OnFile(p) == LET ds == {d \in Dirs : box[d][p] # Absent} IN
  IF "pending" \in ds THEN "pending" ELSE IF "accepted" \in ds THEN "accepted"
  ELSE IF "rejected" \in ds THEN "rejected" ELSE Absent

LoadValidate(q) == \E p \in Proposals :
  /\ OnFile(p) # Absent
  /\ Load(q, "validate", p, box[OnFile(p)][p], "shadow")

(* The candidate's base has to be the active version; then the proposal goes   *)
(* to the inbox as shadow_running, wherever it was read from.                  *)
StartShadow(q) ==
  /\ pc[q] = "shadow"
  /\ IF mem[q].base = Version
     THEN /\ mem' = [mem EXCEPT ![q].status = "shadow_running"]
          /\ box' = [box EXCEPT !["pending"][cur[q]] = mem'[q]]
          /\ pc' = [pc EXCEPT ![q] = "suite"]
          /\ UNCHANGED <<cur, copy>>
     ELSE Leave(q, "idle") /\ UNCHANGED box
  /\ UNCHANGED <<assets, txn, manifest, history, validated, spent>>

(* Mutant: a suite that raised leaves a status of its own.                     *)
FinishShadow_Raised(q) ==
  /\ pc[q] = "suite"
  /\ box' = [box EXCEPT !["pending"][cur[q]] = [mem[q] EXCEPT !.status = "error"]]
  /\ Leave(q, "idle")
  /\ UNCHANGED <<assets, txn, manifest, history, validated, spent>>

(* The suites ran in copies of the workspace. write_proposal refuses a base    *)
(* that has gone stale meanwhile, and so does the handler of that refusal: the *)
(* proposal stays shadow_running.                                              *)
FinishShadow(q) == \E outcome \in Outcomes :
  /\ pc[q] = "suite"
  /\ LET rec == [mem[q] EXCEPT !.status = outcome,
                   !.val = [status |-> outcome, ed |-> mem[q].ed, base |-> mem[q].base]]
     IN  box' = IF rec.base = Version THEN [box EXCEPT !["pending"][cur[q]] = rec]
                                      ELSE box
  /\ validated' = IF outcome = "validated" THEN validated \cup {<<cur[q], mem[q].ed>>}
                                           ELSE validated
  /\ Leave(q, "idle")
  /\ UNCHANGED <<assets, txn, manifest, history, spent>>

-------------------------------------------------------------------------------
(* Review.                                                                     *)

LoadEdit(q) == \E p \in Proposals :
  /\ Pending(p) /\ box["pending"][p].ed < MaxEdits
  /\ Load(q, "edit", p, box["pending"][p], "edit")

(* The edit drops component_change and validation; write_proposal makes the    *)
(* new component_change from the version that is active now.                   *)
WriteEdit(q) ==
  /\ pc[q] = "edit"
  /\ box' = [box EXCEPT !["pending"][cur[q]] =
               [mem[q] EXCEPT !.ed = @ + 1, !.base = Version, !.val = Absent,
                              !.status = "proposed"]]
  /\ Leave(q, "idle")
  /\ UNCHANGED <<assets, txn, manifest, history, validated, spent>>

LoadReject(q) == \E p \in Proposals :
  Pending(p) /\ Load(q, "reject", p, box["pending"][p], "reject")

(* move_proposal unlinks first; write_proposal then refuses a stale base, and  *)
(* the proposal is in no directory any more.                                   *)
Reject(q) ==
  /\ pc[q] = "reject"
  /\ LET gone == [box EXCEPT !["pending"][cur[q]] = Absent] IN
       box' = IF mem[q].base = Version
              THEN [gone EXCEPT !["rejected"][cur[q]] = [mem[q] EXCEPT !.status = "rejected"]]
              ELSE gone
  /\ Leave(q, "idle")
  /\ UNCHANGED <<assets, txn, manifest, history, validated, spent>>

Acceptable(rec) ==
  /\ rec.base = Version
  /\ rec.status = "validated"
  /\ rec.val = [status |-> "validated", ed |-> rec.ed, base |-> rec.base]

(* apply_proposal checks the proposal it was given before it takes the flock.  *)
LoadAccept(q) == \E p \in Proposals :
  /\ Pending(p) /\ Acceptable(box["pending"][p])
  /\ Load(q, "accept", p, box["pending"][p], "apply")

Locked == \E r \in Procs : pc[r] \in {"settle", "promote"}

(* Another process keeps proposal-apply.lock for longer than file_lock waits.  *)
ApplyTimeout(q) ==
  /\ pc[q] = "apply" /\ Locked
  /\ Leave(q, "idle")
  /\ UNCHANGED <<disk, validated, spent>>

(* The proposal's change is appended, and the journal keeps what was there.    *)
Change(q, rec) ==
  LET a == Asset[cur[q]] IN
  /\ txn' = [txn EXCEPT ![cur[q]] = assets[a]]
  /\ mem' = [mem EXCEPT ![q] = [rec EXCEPT !.before = assets[a]]]
  /\ assets' = [assets EXCEPT ![a] = Append(@, <<cur[q], rec.ed>>)]
  /\ pc' = [pc EXCEPT ![q] = "settle"]
  /\ UNCHANGED <<box, manifest, history, cur, copy, validated, spent>>

(* Mutant: the proposal is read again under the lock and not checked again.    *)
Apply_Rereads(q) ==
  /\ pc[q] = "apply" /\ ~Locked /\ Pending(cur[q])
  /\ Change(q, box["pending"][cur[q]])

(* From here to Promote the process holds proposal-apply.lock. Nothing is      *)
(* checked again under it, and what is applied is the dict that was checked.   *)
Apply(q) ==
  /\ pc[q] = "apply" /\ ~Locked
  /\ Change(q, mem[q])

Settled(q) == [mem[q] EXCEPT !.status = "accepted"]

Settle(q) ==
  /\ pc[q] = "settle"
  /\ box' = [box EXCEPT !["pending"][cur[q]] = Absent, !["accepted"][cur[q]] = Settled(q)]
  /\ Goto(q, "promote")
  /\ UNCHANGED <<assets, txn, manifest, history, validated, spent>>

Entry(p, rec) == [p |-> p, base |-> rec.base, ed |-> rec.ed, status |-> "active"]

(* promotion_manifest. It refuses a proposal that is not eligible, when the    *)
(* change is in force and the accepted file written; the journal then stays.   *)
(* Otherwise the accepted file is written once more, with the promotion.       *)
Promote(q) ==
  /\ pc[q] = "promote"
  /\ IF cur[q] \in Eligible
     THEN /\ manifest' = Entry(cur[q], mem[q])
          /\ history' = history \cup {cur[q]}
          /\ box' = [box EXCEPT !["accepted"][cur[q]] = Settled(q)]
          /\ txn' = [txn EXCEPT ![cur[q]] = Absent]
     ELSE UNCHANGED <<manifest, history, box, txn>>
  /\ Leave(q, "idle")
  /\ UNCHANGED <<assets, validated, spent>>

-------------------------------------------------------------------------------
(* Rollback, by hand or by the monitor of a run; neither takes the flock.      *)

LoadRollback(q) == \E p \in Proposals :
  /\ box["accepted"][p] # Absent /\ box["accepted"][p].status = "accepted"
  /\ Load(q, "rollback", p, box["accepted"][p], "undo")

UndoFiles(q) ==
  /\ pc[q] = "undo"
  /\ assets' = [assets EXCEPT ![Asset[cur[q]]] = mem[q].before]
  /\ Goto(q, "demote")
  /\ UNCHANGED <<box, txn, manifest, history, validated, spent>>

Demote(q) ==
  /\ pc[q] = "demote"
  /\ manifest' = IF manifest # Absent /\ manifest.p = cur[q]
                 THEN [manifest EXCEPT !.status = "rolled_back"] ELSE manifest
  /\ Goto(q, "mark")
  /\ UNCHANGED <<assets, box, txn, history, validated, spent>>

MarkRolledBack(q) ==
  /\ pc[q] = "mark"
  /\ box' = [box EXCEPT !["accepted"][cur[q]] = [mem[q] EXCEPT !.status = "rolled_back"]]
  /\ IF copy[q] = Absent THEN Leave(q, "idle") ELSE Goto(q, "report")
  /\ UNCHANGED <<assets, txn, manifest, history, validated, spent>>

(* monitor works on the manifest as it read it; a run that fails its checks    *)
(* rolls the candidate in force back.                                          *)
LoadMonitor(q) ==
  /\ manifest # Absent
  /\ pc[q] = "idle" /\ "monitor" \in Duty[q] /\ Spend("ops", MaxOps)
  /\ copy' = [copy EXCEPT ![q] = manifest]
  /\ \/ /\ manifest.status = "active"
        /\ box["accepted"][manifest.p] # Absent
        /\ box["accepted"][manifest.p].status = "accepted"
        /\ pc' = [pc EXCEPT ![q] = "undo"]
        /\ cur' = [cur EXCEPT ![q] = manifest.p]
        /\ mem' = [mem EXCEPT ![q] = box["accepted"][manifest.p]]
     \/ pc' = [pc EXCEPT ![q] = "report"] /\ UNCHANGED <<cur, mem>>
  /\ UNCHANGED <<disk, validated>>

(* What it writes back is its own copy.                                        *)
WriteMonitor(q) ==
  /\ pc[q] = "report"
  /\ manifest' = IF cur[q] = Absent THEN copy[q]
                                    ELSE [copy[q] EXCEPT !.status = "rolled_back"]
  /\ Leave(q, "idle")
  /\ UNCHANGED <<assets, box, txn, history, validated, spent>>

-------------------------------------------------------------------------------
(* Failures.                                                                   *)

HasFile(p) == box["accepted"][p] # Absent

(* What the journals of ps keep of a file; one that a recovery took away puts  *)
(* nothing back, and of several the last directory's copy stays.               *)
Kept(a, ps) ==
  LET kept == {txn[p] : p \in {p \in ps : Asset[p] = a /\ txn[p] # Absent}} IN
  IF kept = {} THEN {assets[a]} ELSE kept

PutBack(ps) ==
  LET all == UNION {Kept(a, ps) : a \in Assets} IN
  assets' \in {v \in [Assets -> all] : \A a \in Assets : v[a] \in Kept(a, ps)}

(* An exception after the files are in place: they are put back unless an      *)
(* accepted file exists, which an earlier, rolled back acceptance also left.   *)
Fault(q) ==
  /\ "fail" \in Duty[q] /\ pc[q] = "settle" /\ Spend("failures", MaxFailures)
  /\ IF HasFile(cur[q]) THEN UNCHANGED <<assets, txn>>
     ELSE PutBack({cur[q]}) /\ txn' = [txn EXCEPT ![cur[q]] = Absent]
  /\ Leave(q, "idle")
  /\ UNCHANGED <<box, manifest, history, validated>>

Crash(q) ==
  /\ "fail" \in Duty[q] /\ pc[q] \notin {"idle", "down"}
  /\ Spend("failures", MaxFailures)
  /\ Leave(q, "down")
  /\ UNCHANGED <<disk, validated>>

(* initialize() of the next command settles every transaction it finds, that   *)
(* of a running accept too.                                                    *)
Recover(q) ==
  /\ pc[q] = "down"
  /\ PutBack({p \in Proposals : ~HasFile(p)})
  /\ txn' = [p \in Proposals |-> Absent]
  /\ Goto(q, "idle")
  /\ UNCHANGED <<box, manifest, history, validated, spent>>

-------------------------------------------------------------------------------
Validation(q) == LoadValidate(q) \/ StartShadow(q) \/ FinishShadow(q)
Review(q) == LoadEdit(q) \/ WriteEdit(q) \/ LoadReject(q) \/ Reject(q)
Acceptance(q) == LoadAccept(q) \/ ApplyTimeout(q) \/ Apply(q) \/ Settle(q) \/ Promote(q)
Reversal(q) == LoadRollback(q) \/ UndoFiles(q) \/ Demote(q) \/ MarkRolledBack(q)
               \/ LoadMonitor(q) \/ WriteMonitor(q)
Failure(q) == Fault(q) \/ Crash(q) \/ Recover(q)

Next == \E q \in Procs : Validation(q) \/ Review(q) \/ Acceptance(q) \/ Reversal(q)
                         \/ Failure(q)

Spec == Init /\ [][Next]_vars
-------------------------------------------------------------------------------
(* Properties.                                                                 *)

Versions == [Assets -> Content]
Report == [status : Outcomes, ed : 0..MaxEdits, base : Versions]
Record == [status : InboxStatus \cup {"accepted", "rejected", "rolled_back"},
           ed : 0..MaxEdits, base : Versions, val : Report \cup {Absent},
           before : Content]
ManifestEntry == [p : Proposals, base : Versions, ed : 0..MaxEdits,
                  status : {"active", "rolled_back"}]

(* A missing file is no proposal and a missing validation no report.           *)
ASSUME AbsentAssumption == Absent \notin Record
ASSUME ReportAssumption == Absent \notin Report

(* TypeOK: files, proposals, manifest and the processes' memory are of their   *)
(* kind.                                                                       *)
TypeOK ==
  /\ assets \in Versions
  /\ box \in [Dirs -> [Proposals -> Record \cup {Absent}]]
  /\ txn \in [Proposals -> Content \cup {Absent}]
  /\ manifest \in ManifestEntry \cup {Absent} /\ history \subseteq Proposals
  /\ pc \in [Procs -> {"idle", "shadow", "suite", "edit", "reject", "apply", "settle",
                        "promote", "undo", "demote", "mark", "report", "down"}]
  /\ cur \in [Procs -> Proposals \cup {Absent}]
  /\ mem \in [Procs -> Record \cup {Absent}]
  /\ copy \in [Procs -> ManifestEntry \cup {Absent}]
  /\ validated \subseteq Proposals \X (0..MaxEdits)

Accepted(p) == box["accepted"][p] # Absent /\ box["accepted"][p].status = "accepted"

(* PromotedAsValidated: nothing is ever in the component but editions a suite  *)
(* has validated as they are, and an accepted proposal carries the validation  *)
(* of its own edition and base, whatever other processes edit, validate again, *)
(* accept, roll back or recover between the checks of an accept, which precede *)
(* its lock (store/proposals.py:135), and its last write.                      *)
PromotedAsValidated ==
  /\ \A a \in Assets : assets[a] \in Seq(validated)
  /\ \A p \in Proposals : Accepted(p) =>
       LET rec == box["accepted"][p] IN
       rec.val = [status |-> "validated", ed |-> rec.ed, base |-> rec.base]

AtRest == \A q \in Procs : pc[q] = "idle"

(* ActivationRecorded: when nothing runs, every accepted candidate has an      *)
(* entry in the manifest's history ("A validated candidate becomes active only *)
(* after explicit human acceptance; activation writes a versioned manifest",   *)
(* docs/ARCHITECTURE.md).                                                      *)
ActivationRecorded == AtRest => \A p \in Proposals : Accepted(p) => p \in history
================================================================================
