------------------------ MODULE OrderedRegistryProofs ------------------------
(* TLAPS proofs about the harness registry, for every set of candidates,       *)
(* versions and keys in which versions only go up.                             *)
EXTENDS OrderedRegistry, SequenceTheorems, TLAPS

(* What stands for a key: a base version, then promoted candidates, each on    *)
(* the one it replaced and each of a higher version than everything below.     *)
Stands(k) ==
  LET s == standing[k] IN
  /\ s # <<>> => s[1] \in Versions
  /\ \A i \in 2..Len(s) :
       /\ s[i] \in Candidates /\ Key[s[i]] = k
       /\ previous[s[i]] = s[i - 1] /\ VersionOf(s[i - 1]) = Base[s[i]]
       /\ status[s[i]] # "rolled_back"
  /\ \A i, j \in 1..Len(s) : i < j => Rank[VersionOf(s[i])] < Rank[VersionOf(s[j])]

InForce(k) ==
  IF standing[k] = <<>> THEN active[k] = Nothing ELSE active[k] = Top(standing[k])

IndInv == TypeOK /\ \A k \in Keys : Stands(k) /\ InForce(k)

(* A pointer has a version, and the version has a rank.                        *)
LEMMA VersionType ==
  ASSUME NEW p \in Pointers
  PROVE  VersionOf(p) \in Versions /\ Rank[VersionOf(p)] \in Nat
  BY CandidateAssumption, OrderedVersions DEF VersionOf, Pointers

THEOREM InitInv == Init => IndInv
<1> SUFFICES ASSUME Init PROVE IndInv
  OBVIOUS
<1>1. TypeOK
  BY DEF Init, TypeOK, Pointers
<1>2. \A k \in Keys : Stands(k) /\ InForce(k)
  BY DEF Init, Stands, InForce
<1> QED
  BY <1>1, <1>2 DEF IndInv

(* Steps that leave the pointers alone and roll nothing back.                  *)
LEMMA RegisterInv ==
  ASSUME IndInv, NEW c \in Candidates, Register(c)
  PROVE  IndInv'
<1>1. TypeOK'
  BY DEF IndInv, TypeOK, Register, Statuses
<1>2. ASSUME NEW k \in Keys PROVE Stands(k)' /\ InForce(k)'
  BY DEF IndInv, TypeOK, Stands, InForce, Register, VersionOf, Top
<1> QED
  BY <1>1, <1>2 DEF IndInv

LEMMA RecordEvaluationInv ==
  ASSUME IndInv, NEW c \in Candidates, NEW d \in Decisions, RecordEvaluation(c, d)
  PROVE  IndInv'
<1>1. TypeOK'
  BY DEF IndInv, TypeOK, RecordEvaluation, Statuses, Decisions
<1>2. ASSUME NEW k \in Keys PROVE Stands(k)' /\ InForce(k)'
  BY DEF IndInv, TypeOK, Stands, InForce, RecordEvaluation, VersionOf, Top, Decisions
<1> QED
  BY <1>1, <1>2 DEF IndInv

(* A promotion goes on top of everything that stands.                          *)
LEMMA PromoteInv ==
  ASSUME IndInv, NEW c \in Candidates, Promote(c)
  PROVE  IndInv'
<1> DEFINE k == Key[c]
           s == standing[k]
           b == IF s = <<>> THEN <<Base[c]>> ELSE s
<1>1. /\ k \in Keys /\ Base[c] \in Versions /\ c \in Pointers
      /\ s \in Seq(Pointers) /\ Base[c] \in Pointers
  BY CandidateAssumption DEF IndInv, TypeOK, Pointers
<1>2. Stands(k) /\ InForce(k)
  BY <1>1 DEF IndInv
<1>3. s = <<>> => Replaced(c) = Base[c]
  BY <1>2 DEF InForce, Replaced
<1>4. s # <<>> => /\ Len(s) \in 1..Len(s) /\ Top(s) \in Pointers
                  /\ Replaced(c) = Top(s) /\ VersionOf(Top(s)) = Base[c]
  <2> SUFFICES ASSUME s # <<>>
               PROVE  /\ Len(s) \in 1..Len(s) /\ Top(s) \in Pointers
                      /\ Replaced(c) = Top(s) /\ VersionOf(Top(s)) = Base[c]
    OBVIOUS
  <2>1. Len(s) \in 1..Len(s) /\ Top(s) \in Pointers
    BY <1>1 DEF Top
  <2>2. active[k] = Top(s) /\ Top(s) # Nothing
    BY <1>2, <2>1, CandidateAssumption DEF InForce, Pointers
  <2> QED
    BY <2>1, <2>2 DEF Promote, Replaced
<1>5. /\ b \in Seq(Pointers) /\ Len(b) \in 1..Len(b) /\ b[1] \in Versions
      /\ b[Len(b)] = Replaced(c) /\ VersionOf(b[Len(b)]) = Base[c]
  <2>1. CASE s = <<>>
    BY <1>1, <1>3, <2>1, CandidateAssumption DEF VersionOf
  <2>2. CASE s # <<>>
    BY <1>1, <1>2, <1>4, <2>2 DEF Stands, Top
  <2> QED
    BY <2>1, <2>2
<1>6. /\ \A i \in 2..Len(b) :
           /\ b[i] \in Candidates /\ Key[b[i]] = k
           /\ previous[b[i]] = b[i - 1] /\ VersionOf(b[i - 1]) = Base[b[i]]
           /\ status[b[i]] # "rolled_back"
      /\ \A i, j \in 1..Len(b) :
           i < j => Rank[VersionOf(b[i])] < Rank[VersionOf(b[j])]
  BY <1>2 DEF Stands
<1>7. \A i \in 1..Len(b) : Rank[VersionOf(b[i])] < Rank[Version[c]]
  <2>1. Rank[VersionOf(b[Len(b)])] < Rank[Version[c]]
    BY <1>5, OrderedVersions
  <2>2. \A i \in 1..Len(b) : Rank[VersionOf(b[i])] \in Nat
    BY <1>5, VersionType
  <2>3. Rank[Version[c]] \in Nat
    BY CandidateAssumption, OrderedVersions
  <2>4. ASSUME NEW i \in 1..Len(b) PROVE Rank[VersionOf(b[i])] < Rank[Version[c]]
    <3>1. CASE i = Len(b)
      BY <2>1, <3>1
    <3>2. CASE i # Len(b)
      <4>1. Rank[VersionOf(b[i])] < Rank[VersionOf(b[Len(b)])]
        BY <1>5, <1>6, <3>2
      <4> QED
        BY <1>5, <2>1, <2>2, <2>3, <4>1
    <3> QED
      BY <3>1, <3>2
  <2> QED
    BY <2>4
<1>8. \A i \in 1..Len(b) : b[i] # c
  <2>1. VersionOf(c) = Version[c]
    BY DEF VersionOf
  <2> QED
    BY <1>5, <1>7, <2>1, VersionType
<1>9. /\ active' = [active EXCEPT ![k] = c]
      /\ previous' = [previous EXCEPT ![c] = Replaced(c)]
      /\ status' = [status EXCEPT ![c] = "active"]
      /\ standing' = [standing EXCEPT ![k] = Append(b, c)]
      /\ decision' = decision
  BY <1>1, <1>3 DEF Promote, Activate, IndInv, TypeOK
<1>10. TypeOK'
  <2>1. Replaced(c) \in Pointers
    BY <1>5
  <2>2. Append(b, c) \in Seq(Pointers)
    BY <1>1, <1>5
  <2> QED
    BY <1>1, <1>9, <2>1, <2>2 DEF IndInv, TypeOK, Statuses
<1>11. ASSUME NEW r \in Keys, r # k PROVE Stands(r)' /\ InForce(r)'
  <2>1. standing'[r] = standing[r] /\ active'[r] = active[r]
    BY <1>9, <1>11 DEF IndInv, TypeOK
  <2>2. \A i \in 2..Len(standing[r]) : standing[r][i] # c
    BY <1>11 DEF IndInv, Stands
  <2>3. \A d \in Candidates \ {c} : previous'[d] = previous[d] /\ status'[d] = status[d]
    BY <1>9 DEF IndInv, TypeOK
  <2>4. Stands(r) /\ InForce(r)
    BY DEF IndInv
  <2>5. Stands(r)'
    BY <2>1, <2>2, <2>3, <2>4 DEF Stands, VersionOf
  <2> QED
    BY <2>1, <2>4, <2>5 DEF InForce, Top
<1>12. standing'[k] = Append(b, c) /\ active'[k] = c
  BY <1>1, <1>9 DEF IndInv, TypeOK
<1>13. /\ Append(b, c) # <<>> /\ Len(Append(b, c)) = Len(b) + 1
       /\ Append(b, c)[Len(b) + 1] = c
       /\ \A i \in 1..Len(b) : Append(b, c)[i] = b[i]
  BY <1>1, <1>5
<1>14. InForce(k)'
  BY <1>12, <1>13 DEF InForce, Top
<1>15. Stands(k)'
  <2>1. previous'[c] = Replaced(c) /\ status'[c] = "active"
    BY <1>9 DEF IndInv, TypeOK
  <2>2. \A d \in Candidates \ {c} : previous'[d] = previous[d] /\ status'[d] = status[d]
    BY <1>9 DEF IndInv, TypeOK
  <2>3. Append(b, c)[1] \in Versions
    BY <1>5, <1>13
  <2>4. ASSUME NEW i \in 2..Len(Append(b, c))
        PROVE  LET t == Append(b, c) IN
               /\ t[i] \in Candidates /\ Key[t[i]] = k
               /\ previous'[t[i]] = t[i - 1] /\ VersionOf(t[i - 1]) = Base[t[i]]
               /\ status'[t[i]] # "rolled_back"
    <3>1. CASE i = Len(b) + 1
      BY <1>5, <1>13, <2>1, <3>1
    <3>2. CASE i # Len(b) + 1
      <4>1. i \in 2..Len(b) /\ i - 1 \in 1..Len(b) /\ i \in 1..Len(b)
        BY <1>5, <1>13, <2>4, <3>2
      <4>2. Append(b, c)[i] = b[i] /\ Append(b, c)[i - 1] = b[i - 1]
        BY <1>13, <4>1
      <4> QED
        BY <1>6, <1>8, <2>2, <4>1, <4>2
    <3> QED
      BY <3>1, <3>2
  <2>5. ASSUME NEW i \in 1..Len(Append(b, c)), NEW j \in 1..Len(Append(b, c)), i < j
        PROVE  Rank[VersionOf(Append(b, c)[i])] < Rank[VersionOf(Append(b, c)[j])]
    <3>1. i \in 1..Len(b) /\ Append(b, c)[i] = b[i]
      BY <1>5, <1>13, <2>5
    <3>2. CASE j = Len(b) + 1
      BY <1>7, <1>13, <3>1, <3>2 DEF VersionOf
    <3>3. CASE j # Len(b) + 1
      <4>1. j \in 1..Len(b) /\ Append(b, c)[j] = b[j]
        BY <1>5, <1>13, <2>5, <3>3
      <4> QED
        BY <1>6, <2>5, <3>1, <4>1
    <3> QED
      BY <3>2, <3>3
  <2> DEFINE T == Append(b, c)
  <2>6. /\ T[1] \in Versions
        /\ \A i \in 2..Len(T) :
             /\ T[i] \in Candidates /\ Key[T[i]] = k
             /\ previous'[T[i]] = T[i - 1] /\ VersionOf(T[i - 1]) = Base[T[i]]
             /\ status'[T[i]] # "rolled_back"
        /\ \A i, j \in 1..Len(T) :
             i < j => Rank[VersionOf(T[i])] < Rank[VersionOf(T[j])]
        /\ standing'[k] = T
    BY <1>12, <2>3, <2>4, <2>5
  <2> HIDE DEF T, b, k, s
  <2> QED
    BY <2>6 DEF Stands, VersionOf
<1> QED
  BY <1>10, <1>11, <1>14, <1>15 DEF IndInv

(* A rollback takes the top away; the candidate it takes stands nowhere else.  *)
LEMMA RollbackInv ==
  ASSUME IndInv, NEW k \in Keys, Rollback(k)
  PROVE  IndInv'
<1> DEFINE s == standing[k]
           c == active[k]
           t == SubSeq(s, 1, Len(s) - 1)
<1>1. /\ c \in Candidates /\ s \in Seq(Pointers) /\ Stands(k) /\ InForce(k)
      /\ active' = [active EXCEPT ![k] = previous[c]]
      /\ status' = [status EXCEPT ![c] = "rolled_back"]
      /\ standing' = [standing EXCEPT ![k] = t]
      /\ decision' = decision /\ previous' = previous
  BY DEF IndInv, TypeOK, Rollback
<1>2. s # <<>> /\ c = s[Len(s)]
  BY <1>1, CandidateAssumption DEF InForce, Top
<1>3. Len(s) \in Nat /\ Len(s) >= 2
  <2>1. Len(s) \in Nat /\ Len(s) >= 1
    BY <1>1, <1>2
  <2>2. s[1] \notin Candidates
    BY <1>1, <1>2, CandidateAssumption DEF Stands
  <2> QED
    BY <1>1, <1>2, <2>1, <2>2
<1>4. /\ Key[c] = k /\ previous[c] = s[Len(s) - 1]
  BY <1>1, <1>2, <1>3 DEF Stands
<1>5. /\ t \in Seq(Pointers) /\ Len(t) = Len(s) - 1 /\ t # <<>>
      /\ \A i \in 1..Len(t) : t[i] = s[i]
  <2>1. /\ t \in Seq(Pointers) /\ Len(t) = Len(s) - 1
        /\ \A i \in 1..(Len(s) - 1) : t[i] = s[1 + i - 1]
    <3>1. 1 \in 1..(Len(s) + 1) /\ Len(s) - 1 \in 0..Len(s)
      BY <1>3
    <3>2. \A i \in 1..(Len(s) - 1) : s[i] \in Pointers
      BY <1>1, <1>3
    <3> HIDE DEF s
    <3> QED
      BY <1>1, <1>3, <3>1, <3>2
  <2> HIDE DEF t, s
  <2>2. Len(t) >= 1
    BY <1>3, <2>1
  <2>3. t # <<>>
    BY <2>2
  <2>4. \A i \in 1..Len(t) : t[i] = s[i]
    BY <1>3, <2>1
  <2> QED
    BY <2>1, <2>3, <2>4
<1>6. TypeOK'
  BY <1>1, <1>5 DEF IndInv, TypeOK, Statuses
<1>7. \A i \in 1..Len(t) : t[i] # c
  <2>1. \A i \in 1..Len(t) : Rank[VersionOf(s[i])] < Rank[VersionOf(s[Len(s)])]
    <3>1. \A i, j \in 1..Len(s) : i < j => Rank[VersionOf(s[i])] < Rank[VersionOf(s[j])]
      BY <1>1 DEF Stands
    <3>2. \A i \in 1..Len(t) : i \in 1..Len(s) /\ i < Len(s)
      BY <1>3, <1>5
    <3> QED
      BY <1>3, <3>1, <3>2
  <2>2. \A i \in 1..Len(s) : Rank[VersionOf(s[i])] \in Nat
    BY <1>1, VersionType
  <2> QED
    BY <1>2, <1>3, <1>5, <2>1, <2>2
<1>8. \A d \in Candidates \ {c} : status'[d] = status[d]
  BY <1>1 DEF IndInv, TypeOK
<1>9. ASSUME NEW r \in Keys, r # k PROVE Stands(r)' /\ InForce(r)'
  <2>1. standing'[r] = standing[r] /\ active'[r] = active[r]
    BY <1>1, <1>9 DEF IndInv, TypeOK
  <2>2. Stands(r) /\ InForce(r)
    BY DEF IndInv
  <2>3. \A i \in 2..Len(standing[r]) : standing[r][i] # c
    BY <1>4, <1>9, <2>2 DEF Stands
  <2> DEFINE u == standing[r]
  <2>4. /\ u # <<>> => u[1] \in Versions
        /\ \A i \in 2..Len(u) :
             /\ u[i] \in Candidates /\ Key[u[i]] = r
             /\ previous'[u[i]] = u[i - 1] /\ VersionOf(u[i - 1]) = Base[u[i]]
             /\ status'[u[i]] # "rolled_back"
        /\ \A i, j \in 1..Len(u) :
             i < j => Rank[VersionOf(u[i])] < Rank[VersionOf(u[j])]
    BY <1>1, <1>8, <2>2, <2>3 DEF Stands
  <2>5. Stands(r)'
    <3>1. standing'[r] = u
      BY <2>1
    <3> HIDE DEF u
    <3> QED
      BY <2>4, <3>1 DEF Stands, VersionOf
  <2> QED
    BY <2>1, <2>2, <2>5 DEF InForce, Top
<1>10. standing'[k] = t /\ active'[k] = s[Len(s) - 1]
  BY <1>1, <1>4 DEF IndInv, TypeOK
<1>11. InForce(k)'
  <2>1. Top(t) = s[Len(s) - 1]
    BY <1>3, <1>5 DEF Top
  <2> QED
    BY <1>5, <1>10, <2>1 DEF InForce, Top
<1>12. Stands(k)'
  <2>1. t[1] \in Versions
    <3>1. 1 \in 1..Len(t) /\ s[1] \in Versions
      BY <1>1, <1>2, <1>3, <1>5 DEF Stands
    <3> QED
      BY <1>5, <3>1
  <2>2. ASSUME NEW i \in 2..Len(t)
        PROVE  /\ t[i] \in Candidates /\ Key[t[i]] = k
               /\ previous'[t[i]] = t[i - 1] /\ VersionOf(t[i - 1]) = Base[t[i]]
               /\ status'[t[i]] # "rolled_back"
    <3>1. i \in 2..Len(s) /\ t[i] = s[i] /\ t[i - 1] = s[i - 1] /\ t[i] # c
      BY <1>3, <1>5, <1>7, <2>2
    <3> QED
      BY <1>1, <1>8, <3>1 DEF Stands
  <2>3. ASSUME NEW i \in 1..Len(t), NEW j \in 1..Len(t), i < j
        PROVE  Rank[VersionOf(t[i])] < Rank[VersionOf(t[j])]
    <3>1. i \in 1..Len(s) /\ j \in 1..Len(s) /\ t[i] = s[i] /\ t[j] = s[j]
      BY <1>3, <1>5, <2>3
    <3> QED
      BY <1>1, <2>3, <3>1 DEF Stands
  <2> QED
    BY <1>10, <2>1, <2>2, <2>3 DEF Stands, VersionOf
<1> QED
  BY <1>6, <1>9, <1>11, <1>12 DEF IndInv

LEMMA NextInv == IndInv /\ [Next]_vars => IndInv'
<1> SUFFICES ASSUME IndInv, [Next]_vars PROVE IndInv'
  OBVIOUS
<1>1. CASE UNCHANGED vars
  <2>1. TypeOK'
    BY <1>1 DEF IndInv, TypeOK, vars
  <2>2. ASSUME NEW k \in Keys PROVE Stands(k)' /\ InForce(k)'
    <3>1. standing' = standing /\ active' = active
          /\ previous' = previous /\ status' = status
      BY <1>1 DEF vars
    <3>2. Stands(k) /\ InForce(k)
      BY DEF IndInv
    <3>3. Stands(k)'
      BY <3>1, <3>2 DEF Stands, VersionOf
    <3> QED
      BY <3>1, <3>2, <3>3 DEF InForce, Top
  <2> QED
    BY <2>1, <2>2 DEF IndInv
<1>2. CASE Next
  BY <1>2, RegisterInv, RecordEvaluationInv, PromoteInv, RollbackInv DEF Next
<1> QED
  BY <1>1, <1>2

THEOREM Invariant == Spec => []IndInv
<1> QED
  BY InitInv, NextInv, PTL DEF Spec

(* Records, evaluations and pointers are of their kind.                        *)
THEOREM TypeCorrect == Spec => []TypeOK
<1>1. IndInv => TypeOK
  BY DEF IndInv
<1> QED
  BY <1>1, Invariant, PTL

(* A rollback puts back the pointer that the promotion it undoes had replaced, *)
(* for any number of candidates, as long as versions only go up.               *)
THEOREM Restores == Spec => []RollbackRestores
<1>1. IndInv => RollbackRestores
  BY DEF IndInv, InForce, RollbackRestores
<1> QED
  BY <1>1, Invariant, PTL

(* Undoing promotions one by one never leaves a candidate on another base.     *)
THEOREM Chained == Spec => []VersionChain
<1>1. IndInv => VersionChain
  BY DEF IndInv, Stands, VersionChain
<1> QED
  BY <1>1, Invariant, PTL

(* What was rolled back is not in force.                                       *)
THEOREM NotInForce == Spec => []NoRolledBackInForce
<1>1. ASSUME IndInv, NEW k \in Keys, active[k] \in Candidates
      PROVE  status[active[k]] # "rolled_back"
  <2>1. Stands(k) /\ InForce(k) /\ standing[k] \in Seq(Pointers)
    BY <1>1 DEF IndInv, TypeOK
  <2>2. standing[k] # <<>> /\ active[k] = standing[k][Len(standing[k])]
    BY <1>1, <2>1, CandidateAssumption DEF InForce, Top
  <2>3. Len(standing[k]) \in Nat /\ Len(standing[k]) # 0
    BY <2>1, <2>2
  <2>4. Len(standing[k]) # 1
    BY <1>1, <2>1, <2>2, CandidateAssumption DEF Stands
  <2>5. Len(standing[k]) \in 2..Len(standing[k])
    <3>1. \A n \in Nat : n # 0 /\ n # 1 => n \in 2..n
      OBVIOUS
    <3> QED
      BY <2>3, <2>4, <3>1
  <2> QED
    BY <2>1, <2>2, <2>5 DEF Stands
<1>2. IndInv => NoRolledBackInForce
  BY <1>1 DEF NoRolledBackInForce
<1> QED
  BY <1>2, Invariant, PTL
================================================================================
