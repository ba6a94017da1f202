------------------------ MODULE HarnessPromotionProofs ------------------------
(* Theorems of HarnessPromotion, for any number of proposals, files, editions, *)
(* operations, failures and processes, whatever each of them does.             *)
EXTENDS HarnessPromotion, TLAPS

Undoing == {"undo", "demote", "mark"}
Accepting == {"apply", "settle", "promote"}
InHand == {"shadow", "suite", "edit", "reject"} \cup Accepting \cup Undoing
PcType == [Procs -> InHand \cup {"idle", "report", "down"}]
BoxType == [Dirs -> [Proposals -> Record \cup {Absent}]]
RecordStatus == InboxStatus \cup {"accepted", "rejected", "rolled_back"}

(* A record whose validation says validated is of an edition in V, and what    *)
(* its file had before its change was made of editions in V.                   *)
Valid(V, p, rec) ==
  /\ rec.before \in Seq(V)
  /\ rec.val \in Report /\ rec.val.status = "validated" => <<p, rec.val.ed>> \in V

Tested(rec) == [status |-> "validated", ed |-> rec.ed, base |-> rec.base]

(* What a process has in hand when it takes its next step.                     *)
AtStep(q) ==
  /\ pc[q] \in InHand => /\ cur[q] \in Proposals /\ mem[q] \in Record
                         /\ Valid(validated, cur[q], mem[q])
  /\ pc[q] = "edit" => mem[q].ed < MaxEdits
  /\ pc[q] = "report" => copy[q] \in ManifestEntry
  /\ pc[q] \in Accepting => mem[q].val = Tested(mem[q])

(* Files, and the copies journals keep, are made of validated editions.        *)
Files ==
  /\ assets \in [Assets -> Seq(validated)]
  /\ txn \in [Proposals -> Seq(validated) \cup {Absent}]

Boxes == \A d \in Dirs : \A p \in Proposals :
  box[d][p] = Absent \/ Valid(validated, p, box[d][p])

Checked == \A p \in Proposals :
  Accepted(p) => box["accepted"][p].val = Tested(box["accepted"][p])

IndInv ==
  /\ TypeOK
  /\ \A q \in Procs : AtStep(q)
  /\ Files /\ Boxes /\ Checked

-------------------------------------------------------------------------------
(* Records.                                                                    *)

LEMMA SeqGrows == ASSUME NEW S, NEW T, S \subseteq T, NEW s \in Seq(S)
                  PROVE  s \in Seq(T)
  OBVIOUS

LEMMA ValidGrows == ASSUME NEW V, NEW W, V \subseteq W, NEW p, NEW rec, Valid(V, p, rec)
                    PROVE  Valid(W, p, rec)
  BY SeqGrows DEF Valid

(* A new status changes nothing else, and keeps a record valid.                *)
LEMMA SetStatus ==
  ASSUME NEW x \in Record, NEW s \in RecordStatus
  PROVE  /\ [x EXCEPT !.status = s] \in Record
         /\ [x EXCEPT !.status = s].status = s
         /\ [x EXCEPT !.status = s].val = x.val
         /\ Tested([x EXCEPT !.status = s]) = Tested(x)
         /\ \A V, p : Valid(V, p, x) => Valid(V, p, [x EXCEPT !.status = s])
<1> DEFINE y == [x EXCEPT !.status = s]
<1>1. y \in Record /\ y.status = s /\ y.val = x.val /\ y.before = x.before
      /\ y.ed = x.ed /\ y.base = x.base
  BY DEF Record, RecordStatus
<1> HIDE DEF y
<1>2. Tested(y) = Tested(x) /\ \A V, p : Valid(V, p, x) => Valid(V, p, y)
  BY <1>1 DEF Tested, Valid
<1> QED
  BY <1>1, <1>2 DEF y

LEMMA SetVal == ASSUME NEW x \in Record, NEW v \in Report \cup {Absent}
                PROVE  /\ [x EXCEPT !.val = v] \in Record
                       /\ [x EXCEPT !.val = v].val = v
                       /\ [x EXCEPT !.val = v].before = x.before
  BY DEF Record

LEMMA FreshTyped == ASSUME assets \in Versions
                    PROVE  Fresh \in Record /\ \A p : Valid(validated, p, Fresh)
<1>1. 0 \in 0..MaxEdits /\ <<>> \in Content /\ <<>> \in Seq(validated)
  BY PromotionAssumption DEF Content
<1>2. Fresh \in Record
  BY <1>1 DEF Fresh, Record, InboxStatus, Version
<1>3. Absent \notin Report
  BY ReportAssumption
<1> QED
  BY <1>1, <1>2, <1>3 DEF Fresh, Valid

-------------------------------------------------------------------------------
(* Frames: what a step of q leaves alone.                                      *)

Apart(q) == \A r \in Procs \ {q} :
  pc'[r] = pc[r] /\ cur'[r] = cur[r] /\ mem'[r] = mem[r] /\ copy'[r] = copy[r]

LEMMA Combine ==
  ASSUME IndInv, NEW q \in Procs, Apart(q), validated \subseteq validated',
         TypeOK', AtStep(q)', Files', Boxes', Checked'
  PROVE  IndInv'
<1>1. ASSUME NEW r \in Procs \ {q} PROVE AtStep(r)'
  <2>1. /\ pc'[r] = pc[r] /\ cur'[r] = cur[r] /\ mem'[r] = mem[r] /\ copy'[r] = copy[r]
        /\ AtStep(r)
    BY DEF Apart, IndInv
  <2>2. pc[r] \in InHand => Valid(validated', cur[r], mem[r])
    BY <2>1, ValidGrows DEF AtStep
  <2> QED
    BY <2>1, <2>2 DEF AtStep
<1>2. \A r \in Procs : AtStep(r)'
  BY <1>1
<1> QED
  BY <1>2 DEF IndInv

(* Nothing on disk changes.                                                    *)
LEMMA SameDisk ==
  ASSUME IndInv, UNCHANGED <<assets, box, txn, validated>>
  PROVE  Files' /\ Boxes' /\ Checked'
  BY DEF IndInv, Files, Boxes, Checked, Accepted

(* One proposal is written to, or leaves, one directory.                       *)
LEMMA BoxPut ==
  ASSUME IndInv, NEW d \in Dirs, NEW p \in Proposals, NEW rec \in Record \cup {Absent},
         box' = [box EXCEPT ![d][p] = rec], validated \subseteq validated',
         rec = Absent \/ Valid(validated', p, rec),
         d = "accepted" /\ rec # Absent /\ rec.status = "accepted" => rec.val = Tested(rec)
  PROVE  box' \in BoxType /\ Boxes' /\ Checked'
<1>1. box' \in BoxType
  BY DEF IndInv, TypeOK, BoxType
<1>2. \A e \in Dirs : \A r \in Proposals :
        box'[e][r] = IF e = d /\ r = p THEN rec ELSE box[e][r]
  BY DEF IndInv, TypeOK
<1>3. ASSUME NEW e \in Dirs, NEW r \in Proposals
      PROVE  box'[e][r] = Absent \/ Valid(validated', r, box'[e][r])
  <2>1. CASE e = d /\ r = p
    BY <1>2, <2>1
  <2>2. CASE ~(e = d /\ r = p)
    <3>1. box'[e][r] = box[e][r] /\ (box[e][r] = Absent \/ Valid(validated, r, box[e][r]))
      BY <1>2, <2>2 DEF IndInv, Boxes
    <3> QED
      BY <3>1, ValidGrows
  <2> QED
    BY <2>1, <2>2
<1>4. Checked'
  BY <1>2 DEF IndInv, Checked, Accepted, Dirs
<1> QED
  BY <1>1, <1>3, <1>4 DEF Boxes

(* How the operations change what a process has in hand.                       *)
LEMMA LeaveDoes ==
  ASSUME TypeOK, NEW q \in Procs, NEW next \in {"idle", "down"}, Leave(q, next)
  PROVE  /\ pc' \in PcType /\ cur' \in [Procs -> Proposals \cup {Absent}]
         /\ mem' \in [Procs -> Record \cup {Absent}]
         /\ copy' \in [Procs -> ManifestEntry \cup {Absent}]
         /\ Apart(q) /\ AtStep(q)'
<1>1. pc' \in PcType /\ pc'[q] = next
  BY DEF Leave, TypeOK, PcType, InHand, Accepting, Undoing
<1>2. cur' \in [Procs -> Proposals \cup {Absent}]
  BY DEF Leave, TypeOK
<1>3. mem' \in [Procs -> Record \cup {Absent}]
  BY DEF Leave, TypeOK
<1>4. copy' \in [Procs -> ManifestEntry \cup {Absent}]
  BY DEF Leave, TypeOK
<1>5. Apart(q)
  BY DEF Leave, TypeOK, Apart
<1>6. AtStep(q)'
  BY <1>1 DEF AtStep, InHand, Accepting, Undoing
<1> QED
  BY <1>1, <1>2, <1>3, <1>4, <1>5, <1>6

LEMMA GotoDoes ==
  ASSUME TypeOK, NEW q \in Procs, NEW next \in InHand \cup {"idle", "report", "down"},
         Goto(q, next)
  PROVE  /\ pc' \in PcType /\ UNCHANGED <<cur, mem, copy>>
         /\ Apart(q) /\ pc'[q] = next
  BY DEF Goto, TypeOK, PcType, InHand, Accepting, Undoing, Apart

(* A process takes a proposal in hand.                                         *)
LEMMA TakenUp ==
  ASSUME IndInv, NEW q \in Procs, NEW p \in Proposals, NEW rec \in Record,
         NEW next \in InHand, Valid(validated, p, rec),
         next = "edit" => rec.ed < MaxEdits,
         next \in Accepting => rec.val = Tested(rec),
         pc' = [pc EXCEPT ![q] = next], cur' = [cur EXCEPT ![q] = p],
         mem' = [mem EXCEPT ![q] = rec], copy' \in [Procs -> ManifestEntry \cup {Absent}],
         \A r \in Procs \ {q} : copy'[r] = copy[r],
         UNCHANGED <<disk, validated>>
  PROVE  IndInv'
<1>1. pc' \in PcType /\ pc'[q] = next /\ cur'[q] = p /\ mem'[q] = rec
  BY DEF IndInv, TypeOK, PcType, InHand, Accepting, Undoing
<1>2. Apart(q) /\ UNCHANGED <<assets, box, txn, manifest, history, validated>>
  BY DEF IndInv, TypeOK, Apart, disk
<1>3. /\ cur' \in [Procs -> Proposals \cup {Absent}]
      /\ mem' \in [Procs -> Record \cup {Absent}]
  BY DEF IndInv, TypeOK
<1>4. TypeOK'
  BY <1>1, <1>2, <1>3 DEF IndInv, TypeOK, PcType, InHand, Accepting, Undoing
<1>5. AtStep(q)'
  BY <1>1, <1>2 DEF AtStep, InHand, Accepting, Undoing
<1> QED
  BY <1>2, <1>4, <1>5, SameDisk, Combine

LEMMA LoadInv ==
  ASSUME IndInv, NEW q \in Procs, NEW duty, NEW p \in Proposals, NEW rec \in Record,
         NEW next \in InHand, Valid(validated, p, rec), Load(q, duty, p, rec, next),
         next = "edit" => rec.ed < MaxEdits,
         next \in Accepting => rec.val = Tested(rec)
  PROVE  IndInv'
<1>1. copy' \in [Procs -> ManifestEntry \cup {Absent}] /\ copy' = copy
  BY DEF Load, IndInv, TypeOK
<1> QED
  BY <1>1, TakenUp DEF Load

(* What is read from a directory.                                              *)
LEMMA OnDisk ==
  ASSUME IndInv, NEW d \in Dirs, NEW p \in Proposals, box[d][p] # Absent
  PROVE  box[d][p] \in Record /\ Valid(validated, p, box[d][p])
  BY DEF IndInv, TypeOK, Boxes

(* A process lets its proposal go, having written what it may write.           *)
LEMMA LeftInv ==
  ASSUME IndInv, NEW q \in Procs, NEW next \in {"idle", "down"}, Leave(q, next),
         UNCHANGED history \/ history' \subseteq Proposals,
         manifest' \in ManifestEntry \cup {Absent}, validated \subseteq validated',
         validated' \subseteq Proposals \X (0..MaxEdits),
         assets' \in Versions, txn' \in [Proposals -> Content \cup {Absent}],
         box' \in BoxType, Files', Boxes', Checked'
  PROVE  IndInv'
<1>1. /\ pc' \in PcType /\ cur' \in [Procs -> Proposals \cup {Absent}]
      /\ mem' \in [Procs -> Record \cup {Absent}]
      /\ copy' \in [Procs -> ManifestEntry \cup {Absent}]
      /\ Apart(q) /\ AtStep(q)'
  BY LeaveDoes DEF IndInv
<1>2. TypeOK'
  BY <1>1 DEF IndInv, TypeOK, BoxType, PcType, InHand, Accepting, Undoing
<1> QED
  BY <1>1, <1>2, Combine

(* The same, when files and journals are left alone.                           *)
LEMMA BoxLeft ==
  ASSUME IndInv, NEW q \in Procs, Leave(q, "idle"),
         UNCHANGED <<assets, txn, manifest, history>>,
         validated \subseteq validated', validated' \subseteq Proposals \X (0..MaxEdits),
         box' \in BoxType, Boxes', Checked'
  PROVE  IndInv'
<1>1. Files'
  <2>1. \A s : s \in Seq(validated) => s \in Seq(validated')
    BY SeqGrows
  <2> QED
    BY <2>1 DEF IndInv, Files
<1> QED
  BY <1>1, LeftInv DEF IndInv, TypeOK, Versions

(* Nothing but the process changes.                                            *)
LEMMA GaveUp ==
  ASSUME IndInv, NEW q \in Procs, NEW next \in {"idle", "down"}, Leave(q, next),
         UNCHANGED <<assets, box, txn, manifest, history, validated>>
  PROVE  IndInv'
  BY SameDisk, LeftInv DEF IndInv, TypeOK, Versions, BoxType

-------------------------------------------------------------------------------
(* Validation and review.                                                      *)

LEMMA ValidationInv ==
  ASSUME IndInv, NEW q \in Procs, Validation(q)
  PROVE  IndInv'
<1>0. TypeOK /\ AtStep(q)
  BY DEF IndInv
<1>1. CASE LoadValidate(q)
  <2>1. PICK p \in Proposals : /\ OnFile(p) # Absent
                               /\ Load(q, "validate", p, box[OnFile(p)][p], "shadow")
    BY <1>1 DEF LoadValidate
  <2>2. OnFile(p) \in Dirs /\ box[OnFile(p)][p] # Absent
    BY <2>1 DEF OnFile, Dirs
  <2>3. box[OnFile(p)][p] \in Record /\ Valid(validated, p, box[OnFile(p)][p])
    BY <2>2, OnDisk
  <2>4. "shadow" \in InHand /\ "shadow" \notin Accepting
    BY DEF InHand, Accepting
  <2> QED
    BY <2>1, <2>3, <2>4, LoadInv
<1>2. CASE StartShadow(q)
  <2>0. cur[q] \in Proposals /\ mem[q] \in Record /\ Valid(validated, cur[q], mem[q])
    BY <1>0, <1>2 DEF StartShadow, AtStep, InHand
  <2>1. CASE mem[q].base = Version
    <3> DEFINE rec == [mem[q] EXCEPT !.status = "shadow_running"]
    <3>1. rec \in Record /\ rec.status = "shadow_running" /\ Valid(validated, cur[q], rec)
      BY <2>0, SetStatus DEF RecordStatus, InboxStatus
    <3>2. mem' = [mem EXCEPT ![q] = rec] /\ mem'[q] = rec
      BY <1>0, <1>2, <2>1 DEF StartShadow, TypeOK
    <3>3. box' = [box EXCEPT !["pending"][cur[q]] = rec]
      BY <1>2, <2>1, <3>2 DEF StartShadow
    <3> HIDE DEF rec
    <3>4. box' \in BoxType /\ Boxes' /\ Checked'
      <4>1. "pending" \in Dirs /\ validated' = validated
        BY <1>2 DEF Dirs, StartShadow
      <4> QED
        BY <2>0, <3>1, <3>3, <4>1, BoxPut
    <3>5. mem' \in [Procs -> Record \cup {Absent}]
      BY <1>0, <3>1, <3>2 DEF TypeOK
    <3>6. /\ pc' \in PcType /\ pc'[q] = "suite" /\ UNCHANGED <<cur, copy>>
          /\ UNCHANGED <<assets, txn, manifest, history, validated>>
      BY <1>0, <1>2, <2>1 DEF StartShadow, TypeOK, PcType, InHand, Accepting, Undoing
    <3>7. Apart(q)
      BY <1>0, <1>2, <2>1, <3>2, <3>6 DEF StartShadow, TypeOK, Apart
    <3>8. TypeOK'
      BY <1>0, <3>4, <3>5, <3>6 DEF TypeOK, BoxType, PcType, InHand, Accepting, Undoing
    <3>9. AtStep(q)'
      BY <2>0, <3>1, <3>2, <3>6 DEF AtStep, InHand, Accepting, Undoing
    <3>10. Files'
      BY <3>6 DEF IndInv, Files
    <3> QED
      BY <3>4, <3>6, <3>7, <3>8, <3>9, <3>10, Combine
  <2>2. CASE Leave(q, "idle") /\ UNCHANGED box
    BY <1>2, <2>2, GaveUp DEF StartShadow
  <2> QED
    BY <1>2, <2>1, <2>2 DEF StartShadow
<1>3. CASE FinishShadow(q)
  <2>0. cur[q] \in Proposals /\ mem[q] \in Record /\ Valid(validated, cur[q], mem[q])
    BY <1>0, <1>3 DEF FinishShadow, AtStep, InHand
  <2>1. PICK outcome \in Outcomes :
          /\ LET rec == [mem[q] EXCEPT !.status = outcome,
                        !.val = [status |-> outcome, ed |-> mem[q].ed, base |-> mem[q].base]]
             IN  box' = IF rec.base = Version THEN [box EXCEPT !["pending"][cur[q]] = rec]
                                              ELSE box
          /\ validated' = IF outcome = "validated" THEN validated \cup {<<cur[q], mem[q].ed>>}
                                                   ELSE validated
    BY <1>3 DEF FinishShadow
  <2> DEFINE val == [status |-> outcome, ed |-> mem[q].ed, base |-> mem[q].base]
             one == [mem[q] EXCEPT !.status = outcome]
             rec == [one EXCEPT !.val = val]
  <2>2. val \in Report /\ val.status = outcome /\ val.ed = mem[q].ed
    BY <2>0 DEF Record, Report
  <2>3. /\ validated \subseteq validated' /\ validated' \subseteq Proposals \X (0..MaxEdits)
        /\ outcome = "validated" => <<cur[q], mem[q].ed>> \in validated'
    <3>1. <<cur[q], mem[q].ed>> \in Proposals \X (0..MaxEdits)
      BY <2>0 DEF Record
    <3> QED
      BY <1>0, <2>1, <3>1 DEF TypeOK
  <2>4. one \in Record /\ one.status = outcome /\ Valid(validated, cur[q], one)
    BY <2>0, SetStatus DEF RecordStatus, InboxStatus, Outcomes
  <2>5. box' = [box EXCEPT !["pending"][cur[q]] = rec] \/ box' = box
    BY <2>0, <2>1 DEF Record
  <2>6. rec \in Record /\ Valid(validated', cur[q], rec)
    <3> HIDE DEF one, val
    <3>1. rec \in Record /\ rec.val = val /\ rec.before = one.before
      BY <2>2, <2>4, SetVal
    <3>2. rec.before \in Seq(validated')
      BY <2>3, <2>4, <3>1, SeqGrows DEF Valid
    <3> HIDE DEF rec
    <3> QED
      BY <2>2, <2>3, <3>1, <3>2 DEF Valid
  <2> HIDE DEF rec
  <2>7. box' \in BoxType /\ Boxes' /\ Checked'
    <3>1. CASE box' = [box EXCEPT !["pending"][cur[q]] = rec]
      <4>1. "pending" \in Dirs
        BY DEF Dirs
      <4> QED
        BY <2>0, <2>3, <2>6, <3>1, <4>1, BoxPut
    <3>2. CASE box' = box
      <4>1. box' \in BoxType /\ Checked'
        BY <3>2 DEF IndInv, TypeOK, BoxType, Checked, Accepted
      <4>2. Boxes'
        BY <2>3, <3>2, ValidGrows DEF IndInv, Boxes
      <4> QED
        BY <4>1, <4>2
    <3> QED
      BY <2>5, <3>1, <3>2
  <2>8. Leave(q, "idle") /\ UNCHANGED <<assets, txn, manifest, history>>
    BY <1>3 DEF FinishShadow
  <2> QED
    BY <2>3, <2>7, <2>8, BoxLeft
<1> QED
  BY <1>1, <1>2, <1>3 DEF Validation

LEMMA PendingOnDisk == ASSUME IndInv, NEW p \in Proposals, Pending(p)
  PROVE  box["pending"][p] \in Record /\ Valid(validated, p, box["pending"][p])
<1>1. "pending" \in Dirs /\ box["pending"][p] # Absent
  BY DEF Dirs, Pending
<1> QED
  BY <1>1, OnDisk

LEMMA ReviewInv ==
  ASSUME IndInv, NEW q \in Procs, Review(q)
  PROVE  IndInv'
<1>0. TypeOK /\ AtStep(q) /\ "pending" \in Dirs /\ "rejected" \in Dirs
  BY DEF IndInv, Dirs
<1>1. CASE LoadEdit(q)
  <2>1. PICK p \in Proposals : /\ Pending(p) /\ box["pending"][p].ed < MaxEdits
                               /\ Load(q, "edit", p, box["pending"][p], "edit")
    BY <1>1 DEF LoadEdit
  <2>2. "edit" \in InHand /\ "edit" \notin Accepting
    BY DEF InHand, Accepting
  <2> QED
    BY <2>1, <2>2, PendingOnDisk, LoadInv
<1>2. CASE WriteEdit(q)
  <2>0. /\ cur[q] \in Proposals /\ mem[q] \in Record /\ mem[q].ed < MaxEdits
        /\ Valid(validated, cur[q], mem[q])
    BY <1>0, <1>2 DEF WriteEdit, AtStep, InHand
  <2> DEFINE rec == [mem[q] EXCEPT !.ed = @ + 1, !.base = Version, !.val = Absent,
                                   !.status = "proposed"]
  <2>1. /\ mem[q].ed + 1 \in 0..MaxEdits /\ Version \in Versions /\ "proposed" \in InboxStatus
    BY <1>0, <2>0, PromotionAssumption DEF Record, TypeOK, Version, InboxStatus
  <2>2. /\ rec \in Record /\ rec.val = Absent /\ rec.before = mem[q].before
    BY <2>0, <2>1 DEF Record
  <2>3. box' = [box EXCEPT !["pending"][cur[q]] = rec]
    BY <1>2 DEF WriteEdit
  <2> HIDE DEF rec
  <2>4. Valid(validated, cur[q], rec)
    BY <2>0, <2>2, ReportAssumption DEF Valid
  <2>5. /\ Leave(q, "idle") /\ UNCHANGED <<assets, txn, manifest, history, validated>>
        /\ validated' \subseteq Proposals \X (0..MaxEdits)
    BY <1>0, <1>2 DEF WriteEdit, TypeOK
  <2>6. box' \in BoxType /\ Boxes' /\ Checked'
    BY <1>0, <2>0, <2>2, <2>3, <2>4, <2>5, BoxPut
  <2> QED
    BY <2>5, <2>6, BoxLeft
<1>3. CASE LoadReject(q)
  <2>1. PICK p \in Proposals : Pending(p) /\ Load(q, "reject", p, box["pending"][p], "reject")
    BY <1>3 DEF LoadReject
  <2>2. "reject" \in InHand /\ "reject" \notin Accepting
    BY DEF InHand, Accepting
  <2> QED
    BY <2>1, <2>2, PendingOnDisk, LoadInv
<1>4. CASE Reject(q)
  <2>0. cur[q] \in Proposals /\ mem[q] \in Record /\ Valid(validated, cur[q], mem[q])
    BY <1>0, <1>4 DEF Reject, AtStep, InHand
  <2> DEFINE gone == [box EXCEPT !["pending"][cur[q]] = Absent]
             rec == [mem[q] EXCEPT !.status = "rejected"]
  <2>1. rec \in Record /\ Valid(validated, cur[q], rec)
    BY <2>0, SetStatus DEF RecordStatus
  <2>2. box' = gone \/ box' = [gone EXCEPT !["rejected"][cur[q]] = rec]
    BY <1>4 DEF Reject
  <2> HIDE DEF rec
  <2>3. /\ box' \in BoxType
        /\ \A d \in Dirs : \A p \in Proposals :
             \/ box'[d][p] \in {box[d][p], Absent}
             \/ d = "rejected" /\ p = cur[q] /\ box'[d][p] = rec
    BY <1>0, <2>0, <2>1, <2>2 DEF TypeOK, BoxType, Dirs
  <2>4. /\ Leave(q, "idle") /\ UNCHANGED <<assets, txn, manifest, history, validated>>
        /\ validated' \subseteq Proposals \X (0..MaxEdits)
    BY <1>0, <1>4 DEF Reject, TypeOK
  <2>5. Boxes'
    BY <2>1, <2>3, <2>4 DEF IndInv, Boxes
  <2>6. Checked'
    BY <2>3 DEF IndInv, Checked, Accepted, Dirs
  <2> QED
    BY <2>3, <2>4, <2>5, <2>6, BoxLeft
<1> QED
  BY <1>1, <1>2, <1>3, <1>4 DEF Review

-------------------------------------------------------------------------------
(* Acceptance.                                                                 *)

(* The checks of an accept are about the edition in hand: it is validated.     *)
LEMMA Passed ==
  ASSUME NEW V, NEW p, NEW rec \in Record, rec.val = Tested(rec), Valid(V, p, rec)
  PROVE  <<p, rec.ed>> \in V
<1>1. rec.val \in Report /\ rec.val.status = "validated" /\ rec.val.ed = rec.ed
  BY DEF Tested, Record, Report, Outcomes
<1> QED
  BY <1>1 DEF Valid

LEMMA SettledIs ==
  ASSUME NEW q \in Procs, mem[q] \in Record, mem[q].val = Tested(mem[q]),
         Valid(validated, cur[q], mem[q])
  PROVE  /\ Settled(q) \in Record /\ Settled(q).val = Tested(Settled(q))
         /\ Valid(validated, cur[q], Settled(q))
  BY SetStatus DEF Settled, RecordStatus

LEMMA ApplyInv ==
  ASSUME IndInv, NEW q \in Procs, Apply(q)
  PROVE  IndInv'
<1>0. /\ TypeOK /\ cur[q] \in Proposals /\ mem[q] \in Record /\ pc[q] = "apply"
      /\ mem[q].val = Tested(mem[q]) /\ Valid(validated, cur[q], mem[q])
  BY DEF IndInv, Apply, AtStep, InHand, Accepting
<1> DEFINE a == Asset[cur[q]]
           rec == [mem[q] EXCEPT !.before = assets[a]]
           file == Append(assets[a], <<cur[q], mem[q].ed>>)
<1>1. /\ a \in Assets /\ assets \in Versions /\ assets[a] \in Content
      /\ assets[a] \in Seq(validated)
  BY <1>0, PromotionAssumption DEF TypeOK, Versions, IndInv, Files
<1>2. /\ rec \in Record /\ rec.before = assets[a] /\ rec.ed = mem[q].ed
      /\ rec.base = mem[q].base /\ rec.val = mem[q].val
  BY <1>0, <1>1 DEF Record
<1>3. file \in Content /\ file \in Seq(validated)
  <2>1. <<cur[q], mem[q].ed>> \in Proposals \X (0..MaxEdits)
    BY <1>0 DEF Record
  <2>2. <<cur[q], mem[q].ed>> \in validated
    BY <1>0, Passed
  <2> QED
    BY <1>1, <2>1, <2>2 DEF Content
<1>4. /\ mem' = [mem EXCEPT ![q] = rec]
      /\ assets' = [assets EXCEPT ![a] = file] /\ txn' = [txn EXCEPT ![cur[q]] = assets[a]]
      /\ pc' = [pc EXCEPT ![q] = "settle"]
      /\ UNCHANGED <<box, manifest, history, cur, copy, validated>>
  BY <1>1 DEF Apply, Change, Versions
<1> HIDE DEF rec, file, a
<1>5. /\ assets' \in Versions /\ txn' \in [Proposals -> Content \cup {Absent}]
      /\ mem' \in [Procs -> Record \cup {Absent}] /\ mem'[q] = rec
      /\ pc' \in PcType /\ pc'[q] = "settle"
  BY <1>0, <1>1, <1>2, <1>3, <1>4
     DEF TypeOK, Versions, PcType, InHand, Accepting, Undoing
<1>6. Apart(q)
  BY <1>0, <1>4 DEF TypeOK, Apart
<1>7. TypeOK'
  BY <1>0, <1>4, <1>5 DEF TypeOK, PcType, InHand, Accepting, Undoing
<1>8. AtStep(q)'
  <2>1. Valid(validated, cur[q], rec) /\ rec.val = Tested(rec)
    BY <1>0, <1>1, <1>2 DEF Valid, Tested
  <2> QED
    BY <1>0, <1>2, <1>4, <1>5, <2>1 DEF AtStep, InHand, Accepting, Undoing
<1>9. Files'
  BY <1>0, <1>1, <1>3, <1>4 DEF IndInv, Files
<1>10. Boxes' /\ Checked'
  BY <1>4 DEF IndInv, Boxes, Checked, Accepted
<1> QED
  BY <1>4, <1>6, <1>7, <1>8, <1>9, <1>10, Combine

LEMMA AcceptanceInv ==
  ASSUME IndInv, NEW q \in Procs, Acceptance(q)
  PROVE  IndInv'
<1>0. TypeOK /\ AtStep(q)
  BY DEF IndInv
<1>1. CASE LoadAccept(q)
  <2>1. PICK p \in Proposals : /\ Pending(p) /\ Acceptable(box["pending"][p])
                               /\ Load(q, "accept", p, box["pending"][p], "apply")
    BY <1>1 DEF LoadAccept
  <2>2. "apply" \in InHand /\ box["pending"][p].val = Tested(box["pending"][p])
    BY <2>1 DEF InHand, Accepting, Acceptable, Tested
  <2> QED
    BY <2>1, <2>2, PendingOnDisk, LoadInv
<1>2. CASE ApplyTimeout(q)
  BY <1>2, GaveUp DEF ApplyTimeout, disk
<1>3. CASE Apply(q)
  BY <1>3, ApplyInv
<1>4. CASE Settle(q)
  <2>0. /\ cur[q] \in Proposals /\ mem[q] \in Record
        /\ mem[q].val = Tested(mem[q]) /\ Valid(validated, cur[q], mem[q])
    BY <1>0, <1>4 DEF Settle, AtStep, InHand, Accepting
  <2> DEFINE rec == Settled(q)
  <2>1. rec \in Record /\ rec.val = Tested(rec) /\ Valid(validated, cur[q], rec)
    BY <2>0, SettledIs
  <2>2. /\ box' = [box EXCEPT !["pending"][cur[q]] = Absent, !["accepted"][cur[q]] = rec]
        /\ UNCHANGED <<assets, txn, manifest, history, validated>>
    BY <1>4 DEF Settle
  <2> HIDE DEF rec
  <2>3. /\ box' \in BoxType
        /\ \A d \in Dirs : \A p \in Proposals :
             \/ box'[d][p] \in {box[d][p], Absent}
             \/ d = "accepted" /\ p = cur[q] /\ box'[d][p] = rec
        /\ box'["accepted"][cur[q]] = rec
        /\ \A p \in Proposals \ {cur[q]} : box'["accepted"][p] = box["accepted"][p]
    BY <1>0, <2>0, <2>1, <2>2 DEF TypeOK, BoxType, Dirs
  <2>4. Boxes'
    BY <2>1, <2>2, <2>3 DEF IndInv, Boxes
  <2>5. Checked'
    BY <2>1, <2>3 DEF IndInv, Checked, Accepted
  <2>6. /\ pc' \in PcType /\ UNCHANGED <<cur, mem, copy>> /\ Apart(q) /\ pc'[q] = "promote"
    BY <1>0, <1>4, GotoDoes DEF Settle, InHand, Accepting
  <2>7. TypeOK'
    BY <1>0, <2>2, <2>3, <2>6 DEF TypeOK, BoxType, PcType, InHand, Accepting, Undoing
  <2>8. AtStep(q)'
    BY <2>0, <2>2, <2>6 DEF AtStep, InHand, Accepting, Undoing
  <2>9. Files'
    BY <2>2 DEF IndInv, Files
  <2> QED
    BY <2>2, <2>4, <2>5, <2>6, <2>7, <2>8, <2>9, Combine
<1>5. CASE Promote(q)
  <2>0. /\ cur[q] \in Proposals /\ mem[q] \in Record /\ "accepted" \in Dirs
        /\ mem[q].val = Tested(mem[q]) /\ Valid(validated, cur[q], mem[q])
    BY <1>0, <1>5 DEF Promote, AtStep, InHand, Accepting, Dirs
  <2>1. Entry(cur[q], mem[q]) \in ManifestEntry
    BY <2>0 DEF Entry, Record, ManifestEntry
  <2>2. /\ manifest' \in ManifestEntry \cup {Absent} /\ history' \subseteq Proposals
        /\ txn' \in [Proposals -> Content \cup {Absent}]
        /\ Leave(q, "idle") /\ UNCHANGED <<assets, validated>>
        /\ \A p \in Proposals : txn'[p] \in {txn[p], Absent}
    BY <1>0, <1>5, <2>0, <2>1 DEF Promote, TypeOK
  <2>3. box' \in BoxType /\ Boxes' /\ Checked'
    <3>1. CASE box' = [box EXCEPT !["accepted"][cur[q]] = Settled(q)]
      <4>1. /\ Settled(q) \in Record /\ Settled(q).val = Tested(Settled(q))
            /\ Valid(validated, cur[q], Settled(q))
        BY <2>0, SettledIs
      <4> QED
        BY <2>0, <2>2, <3>1, <4>1, BoxPut
    <3>2. CASE box' = box
      BY <2>2, <3>2 DEF IndInv, TypeOK, BoxType, Boxes, Checked, Accepted
    <3> QED
      BY <1>5, <3>1, <3>2 DEF Promote
  <2>4. Files'
    BY <2>2 DEF IndInv, Files
  <2>5. assets' \in Versions /\ validated' \subseteq Proposals \X (0..MaxEdits)
    BY <1>0, <2>2 DEF TypeOK
  <2> QED
    BY <2>2, <2>3, <2>4, <2>5, LeftInv
<1> QED
  BY <1>1, <1>2, <1>3, <1>4, <1>5 DEF Acceptance

-------------------------------------------------------------------------------
(* Rollback and monitoring.                                                    *)

LEMMA AcceptedOnDisk == ASSUME IndInv, NEW p \in Proposals, box["accepted"][p] # Absent
  PROVE  box["accepted"][p] \in Record /\ Valid(validated, p, box["accepted"][p])
<1>1. "accepted" \in Dirs
  BY DEF Dirs
<1> QED
  BY <1>1, OnDisk

LEMMA ReversalInv ==
  ASSUME IndInv, NEW q \in Procs, Reversal(q)
  PROVE  IndInv'
<1>0. TypeOK /\ AtStep(q) /\ "undo" \in InHand \ Accepting
  BY DEF IndInv, InHand, Undoing, Accepting
<1>1. CASE LoadRollback(q)
  <2>1. PICK p \in Proposals : /\ box["accepted"][p] # Absent
                               /\ Load(q, "rollback", p, box["accepted"][p], "undo")
    BY <1>1 DEF LoadRollback
  <2> QED
    BY <1>0, <2>1, AcceptedOnDisk, LoadInv
<1>2. CASE UndoFiles(q)
  <2>0. /\ cur[q] \in Proposals /\ mem[q] \in Record /\ Valid(validated, cur[q], mem[q])
    BY <1>0, <1>2 DEF UndoFiles, AtStep, InHand, Undoing
  <2>1. assets' \in Versions /\ Files'
    <3>1. /\ Asset[cur[q]] \in Assets /\ mem[q].before \in Content
          /\ mem[q].before \in Seq(validated) /\ assets \in Versions
      BY <1>0, <2>0, PromotionAssumption DEF Record, TypeOK, Valid
    <3> QED
      BY <1>2, <3>1 DEF UndoFiles, Versions, IndInv, Files
  <2>2. /\ pc' \in PcType /\ UNCHANGED <<cur, mem, copy>> /\ Apart(q) /\ pc'[q] = "demote"
        /\ UNCHANGED <<box, txn, manifest, history, validated>>
    BY <1>0, <1>2, GotoDoes DEF UndoFiles, InHand, Undoing
  <2>3. TypeOK'
    BY <1>0, <2>1, <2>2 DEF TypeOK, PcType, InHand, Accepting, Undoing
  <2>4. AtStep(q)' /\ Boxes' /\ Checked'
    BY <2>0, <2>2 DEF AtStep, InHand, Accepting, Undoing, IndInv, Boxes, Checked, Accepted
  <2> QED
    BY <2>1, <2>2, <2>3, <2>4, Combine
<1>3. CASE Demote(q)
  <2>0. /\ cur[q] \in Proposals /\ mem[q] \in Record /\ Valid(validated, cur[q], mem[q])
    BY <1>0, <1>3 DEF Demote, AtStep, InHand, Undoing
  <2>1. /\ pc' \in PcType /\ UNCHANGED <<cur, mem, copy>> /\ Apart(q) /\ pc'[q] = "mark"
        /\ UNCHANGED <<assets, box, txn, history, validated>>
    BY <1>0, <1>3, GotoDoes DEF Demote, InHand, Undoing
  <2>2. manifest' \in ManifestEntry \cup {Absent}
    BY <1>0, <1>3 DEF Demote, TypeOK, ManifestEntry
  <2>3. TypeOK'
    BY <1>0, <2>1, <2>2 DEF TypeOK, PcType, InHand, Accepting, Undoing
  <2>4. AtStep(q)'
    BY <2>0, <2>1 DEF AtStep, InHand, Accepting, Undoing
  <2> QED
    BY <2>1, <2>3, <2>4, SameDisk, Combine
<1>4. CASE MarkRolledBack(q)
  <2>0. /\ cur[q] \in Proposals /\ mem[q] \in Record /\ Valid(validated, cur[q], mem[q])
        /\ "accepted" \in Dirs
    BY <1>0, <1>4 DEF MarkRolledBack, AtStep, InHand, Undoing, Dirs
  <2> DEFINE rec == [mem[q] EXCEPT !.status = "rolled_back"]
  <2>1. rec \in Record /\ rec.status = "rolled_back" /\ Valid(validated, cur[q], rec)
    BY <2>0, SetStatus DEF RecordStatus
  <2>2. /\ box' = [box EXCEPT !["accepted"][cur[q]] = rec]
        /\ UNCHANGED <<assets, txn, manifest, history, validated>>
    BY <1>4 DEF MarkRolledBack
  <2> HIDE DEF rec
  <2>3. box' \in BoxType /\ Boxes' /\ Checked' /\ Files'
    <3>1. box' \in BoxType /\ Boxes' /\ Checked'
      BY <2>0, <2>1, <2>2, BoxPut
    <3> QED
      BY <2>2, <3>1 DEF IndInv, Files
  <2>4. CASE copy[q] = Absent
    <3>1. Leave(q, "idle")
      BY <1>4, <2>4 DEF MarkRolledBack
    <3> QED
      BY <1>0, <2>2, <2>3, <3>1, BoxLeft DEF TypeOK
  <2>5. CASE copy[q] # Absent
    <3>1. /\ pc' \in PcType /\ UNCHANGED <<cur, mem, copy>>
          /\ Apart(q) /\ pc'[q] = "report"
      BY <1>0, <1>4, <2>5, GotoDoes DEF MarkRolledBack
    <3>2. TypeOK'
      BY <1>0, <2>2, <2>3, <3>1 DEF TypeOK, BoxType, PcType, InHand, Accepting, Undoing
    <3>3. AtStep(q)'
      BY <1>0, <2>5, <3>1 DEF TypeOK, AtStep, InHand, Accepting, Undoing
    <3> QED
      BY <2>2, <2>3, <3>1, <3>2, <3>3, Combine
  <2> QED
    BY <2>4, <2>5
<1>5. CASE LoadMonitor(q)
  <2>0. manifest \in ManifestEntry /\ UNCHANGED <<disk, validated>>
    BY <1>0, <1>5 DEF LoadMonitor, TypeOK
  <2>1. /\ copy' \in [Procs -> ManifestEntry \cup {Absent}] /\ copy'[q] = manifest
        /\ \A r \in Procs \ {q} : copy'[r] = copy[r]
    BY <1>0, <1>5, <2>0 DEF LoadMonitor, TypeOK
  <2>2. CASE /\ box["accepted"][manifest.p] # Absent
             /\ pc' = [pc EXCEPT ![q] = "undo"]
             /\ cur' = [cur EXCEPT ![q] = manifest.p]
             /\ mem' = [mem EXCEPT ![q] = box["accepted"][manifest.p]]
    <3>1. manifest.p \in Proposals
      BY <2>0 DEF ManifestEntry
    <3>2. /\ box["accepted"][manifest.p] \in Record
          /\ Valid(validated, manifest.p, box["accepted"][manifest.p])
      BY <2>2, <3>1, AcceptedOnDisk
    <3> QED
      BY <1>0, <2>0, <2>1, <2>2, <3>1, <3>2, TakenUp
  <2>3. CASE pc' = [pc EXCEPT ![q] = "report"] /\ UNCHANGED <<cur, mem>>
    <3>1. /\ pc' \in PcType /\ pc'[q] = "report" /\ Apart(q)
          /\ UNCHANGED <<assets, box, txn, manifest, history, validated>>
      BY <1>0, <2>0, <2>1, <2>3
         DEF TypeOK, Apart, disk, PcType, InHand, Accepting, Undoing
    <3>2. TypeOK'
      BY <1>0, <2>1, <2>3, <3>1 DEF TypeOK, PcType, InHand, Accepting, Undoing
    <3>3. AtStep(q)'
      BY <2>0, <2>1, <3>1 DEF AtStep, InHand, Accepting, Undoing
    <3> QED
      BY <3>1, <3>2, <3>3, SameDisk, Combine
  <2> QED
    BY <1>5, <2>2, <2>3 DEF LoadMonitor
<1>6. CASE WriteMonitor(q)
  <2>0. /\ copy[q] \in ManifestEntry /\ Leave(q, "idle")
        /\ UNCHANGED <<assets, box, txn, history, validated>>
    BY <1>0, <1>6 DEF WriteMonitor, AtStep
  <2>1. manifest' \in ManifestEntry
    BY <1>6, <2>0 DEF WriteMonitor, ManifestEntry
  <2> QED
    BY <1>0, <2>0, <2>1, SameDisk, LeftInv DEF TypeOK, BoxType
<1> QED
  BY <1>1, <1>2, <1>3, <1>4, <1>5, <1>6 DEF Reversal

-------------------------------------------------------------------------------
(* Failures.                                                                   *)

LEMMA PutBackTyped ==
  ASSUME IndInv, NEW ps \in SUBSET Proposals, PutBack(ps)
  PROVE  assets' \in Versions /\ assets' \in [Assets -> Seq(validated)]
<1>1. ASSUME NEW a \in Assets, NEW c \in Kept(a, ps)
      PROVE  c \in Content /\ c \in Seq(validated)
  <2>1. c = assets[a] \/ \E p \in Proposals : c = txn[p] /\ txn[p] # Absent
    BY <1>1 DEF Kept
  <2> QED
    BY <2>1 DEF IndInv, TypeOK, Versions, Files
<1>2. /\ assets' = [a \in Assets |-> assets'[a]]
      /\ \A a \in Assets : assets'[a] \in Kept(a, ps)
  BY DEF PutBack
<1> QED
  BY <1>1, <1>2 DEF Versions

LEMMA FailureInv ==
  ASSUME IndInv, NEW q \in Procs, Failure(q)
  PROVE  IndInv'
<1>0. TypeOK /\ AtStep(q)
  BY DEF IndInv
<1>1. CASE Fault(q)
  <2>0. /\ cur[q] \in Proposals
        /\ UNCHANGED <<box, manifest, history, validated>> /\ Leave(q, "idle")
    BY <1>0, <1>1 DEF Fault, AtStep, InHand, Accepting
  <2>1. /\ assets' \in Versions /\ assets' \in [Assets -> Seq(validated)]
        /\ \/ UNCHANGED txn
           \/ txn' = [txn EXCEPT ![cur[q]] = Absent]
    <3>1. CASE UNCHANGED <<assets, txn>>
      BY <1>0, <3>1 DEF IndInv, Files, TypeOK
    <3>2. CASE PutBack({cur[q]}) /\ txn' = [txn EXCEPT ![cur[q]] = Absent]
      BY <2>0, <3>2, PutBackTyped
    <3> QED
      BY <1>1, <3>1, <3>2 DEF Fault
  <2>2. txn' \in [Proposals -> Content \cup {Absent}] /\ Files'
    BY <1>0, <2>0, <2>1 DEF TypeOK, IndInv, Files
  <2>3. Boxes' /\ Checked'
    BY <2>0 DEF IndInv, Boxes, Checked, Accepted
  <2> QED
    BY <1>0, <2>0, <2>1, <2>2, <2>3, LeftInv DEF TypeOK, BoxType
<1>2. CASE Crash(q)
  BY <1>2, GaveUp DEF Crash, disk
<1>3. CASE Recover(q)
  <2>0. /\ UNCHANGED <<box, manifest, history, validated>>
        /\ txn' = [p \in Proposals |-> Absent]
    BY <1>3 DEF Recover
  <2>1. /\ pc' \in PcType /\ UNCHANGED <<cur, mem, copy>> /\ Apart(q) /\ pc'[q] = "idle"
    BY <1>0, <1>3, GotoDoes DEF Recover
  <2> DEFINE ps == {p \in Proposals : ~HasFile(p)}
  <2>2. assets' \in Versions /\ assets' \in [Assets -> Seq(validated)]
    <3>1. PutBack(ps) /\ ps \in SUBSET Proposals
      BY <1>3 DEF Recover
    <3> HIDE DEF ps
    <3> QED
      BY <3>1, PutBackTyped
  <2>3. TypeOK'
    BY <1>0, <2>0, <2>1, <2>2 DEF TypeOK, PcType, InHand, Accepting, Undoing
  <2>4. AtStep(q)'
    BY <2>1 DEF AtStep, InHand, Accepting, Undoing
  <2>5. Files'
    BY <2>0, <2>2 DEF Files
  <2>6. Boxes' /\ Checked'
    BY <2>0 DEF IndInv, Boxes, Checked, Accepted
  <2> QED
    BY <2>0, <2>1, <2>3, <2>4, <2>5, <2>6, Combine
<1> QED
  BY <1>1, <1>2, <1>3 DEF Failure

-------------------------------------------------------------------------------
(* The invariant and what follows from it.                                     *)

LEMMA InitInv == ASSUME Init PROVE IndInv
<1>1. assets \in Versions /\ assets \in [Assets -> Seq(validated)]
  BY DEF Init, Versions, Content
<1>2. /\ box \in BoxType
      /\ \A d \in Dirs : \A p \in Proposals : box[d][p] \in {Fresh, Absent}
  BY <1>1, FreshTyped DEF Init, BoxType
<1>3. \A p \in Proposals : box["accepted"][p] = Absent
  BY DEF Init, Dirs
<1>4. TypeOK
  BY <1>1, <1>2 DEF Init, TypeOK, BoxType
<1>5. \A q \in Procs : AtStep(q)
  BY DEF Init, AtStep, InHand, Accepting, Undoing
<1>6. Files /\ Boxes /\ Checked
  <2>1. Files /\ Checked
    BY <1>1, <1>3 DEF Init, Files, Checked, Accepted
  <2>2. Boxes
    BY <1>1, <1>2, FreshTyped DEF Boxes
  <2> QED
    BY <2>1, <2>2
<1> QED
  BY <1>4, <1>5, <1>6 DEF IndInv

LEMMA StepInv == ASSUME IndInv, [Next]_vars PROVE IndInv'
<1>1. ASSUME NEW q \in Procs, Validation(q) \/ Review(q) \/ Acceptance(q) \/ Reversal(q)
                              \/ Failure(q)
      PROVE  IndInv'
  BY <1>1, ValidationInv, ReviewInv, AcceptanceInv, ReversalInv, FailureInv
<1>2. CASE UNCHANGED vars
  <2>1. UNCHANGED <<assets, box, txn, manifest, history, pc, cur, mem, copy, validated>>
    BY <1>2 DEF vars, disk
  <2>2. TypeOK' /\ \A q \in Procs : AtStep(q)'
    BY <2>1 DEF IndInv, TypeOK, AtStep
  <2> QED
    BY <2>1, <2>2, SameDisk DEF IndInv
<1> QED
  BY <1>1, <1>2 DEF Next

LEMMA Invariance == Spec => []IndInv
<1>1. Init => IndInv
  BY InitInv
<1>2. IndInv /\ [Next]_vars => IndInv'
  BY StepInv
<1> QED
  BY <1>1, <1>2, PTL DEF Spec

(* The files, the proposals, the manifest and what the processes hold stay of  *)
(* their kind, through every interleaving, fault, kill and recovery.           *)
THEOREM TypeCorrect == Spec => []TypeOK
<1>1. IndInv => TypeOK
  BY DEF IndInv
<1> QED
  BY <1>1, Invariance, PTL

(* Nothing is ever in the component but editions a suite has validated, and an *)
(* accepted proposal carries the validation of its own edition and base, with  *)
(* any number of processes that validate, edit, accept, roll back, monitor,    *)
(* fail and recover beside each other: what is applied is the dict that the    *)
(* checks of apply_proposal have seen, and what is put back was applied.       *)
THEOREM AppliedAsValidated == Spec => []PromotedAsValidated
<1>1. IndInv => PromotedAsValidated
  BY DEF IndInv, Files, Checked, Tested, PromotedAsValidated
<1> QED
  BY <1>1, Invariance, PTL
================================================================================
