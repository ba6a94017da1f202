--------------------------- MODULE ChatBrokerProofs ---------------------------
(* Theorems of ChatBroker, for any number of brokers, threads and roles.       *)
EXTENDS ChatBroker, FiniteSetTheorems, TLAPS

InLock == {"begin", "commit", "admit"}
InFlight == Steps \ {"idle", "flight"}

(* Who holds what follows from where every thread is.                          *)
FlightHeld == \A b \in Brokers, c \in Callers :
  flight[b] = c <=> Home[c] = b /\ pc[c] \in InFlight
LockHeld == \A b \in Brokers, c \in Callers :
  lock[b] = c <=> Home[c] = b /\ pc[c] \in InLock
Writing == \A c \in Callers :
  /\ writer = c <=> pc[c] = "commit"
  /\ pc[c] = "commit" => row[c] = quota

(* What Enter has checked stays true until Admit.                              *)
Checked == \A c \in Callers : pc[c] \in InLock =>
  broker[Home[c]].live /\ Fits(ask[c], broker[Home[c]].left)

IndInv == TypeOK /\ FlightHeld /\ LockHeld /\ Writing /\ Checked

USE BrokerAssumption

LEMMA NoneIsAmount == None \in Amount
  BY DEF None, Amount

LEMMA PlusIsAmount == ASSUME NEW x \in Amount, NEW y \in Amount
                      PROVE  Plus(x, y) \in Amount
  BY DEF Plus, Amount, Resources

LEMMA MinusIsAmount == ASSUME NEW x \in Amount, NEW y \in Amount, Fits(y, x)
                       PROVE  Minus(x, y) \in Amount
  BY DEF Minus, Amount, Fits, Resources

LEMMA MinusIsOwn == ASSUME NEW x \in OwnAmount, NEW y \in Amount, Fits(y, x)
                    PROVE  Minus(x, y) \in OwnAmount
  BY DEF Minus, Amount, OwnAmount, Fits, Resources, Own

LEMMA AdmittedTyped == ASSUME NEW r \in BrokerState, NEW l \in OwnAmount
                       PROVE  [r EXCEPT !.admitted = @ + 1, !.left = l] \in BrokerState
<1>1. [r EXCEPT !.admitted = @ + 1] \in BrokerState
  BY DEF BrokerState
<1>2. \A q \in BrokerState : [q EXCEPT !.left = l] \in BrokerState
  BY DEF BrokerState
<1> QED
  BY <1>1, <1>2

LEMMA RequestsAreAmounts == ASSUME NEW r \in Requests PROVE r \in Amount
  OBVIOUS

THEOREM InitInv == Init => IndInv
<1> SUFFICES ASSUME Init PROVE IndInv
  OBVIOUS
<1>1. TypeOK
  BY NoneIsAmount DEF Init, TypeOK, QuotaRow, BrokerState, Fresh, Steps
<1>2. FlightHeld /\ LockHeld /\ Writing /\ Checked
  BY DEF Init, FlightHeld, LockHeld, Writing, Checked, InFlight, InLock, Steps
<1> QED
  BY <1>1, <1>2 DEF IndInv

LEMMA DenyTyped == ASSUME TypeOK, NEW c \in Callers, Deny(c)
                   PROVE  /\ pc' \in [Callers -> Steps]
                          /\ ask' \in [Callers -> Amount]
                          /\ flight' \in [Brokers -> Callers \cup {Nobody}]
                          /\ lock' \in [Brokers -> Callers \cup {Nobody}]
  BY NoneIsAmount DEF TypeOK, Deny, Steps

LEMMA TypeStep == ASSUME IndInv, [Next]_vars PROVE TypeOK'
<1> USE DEF IndInv
<1>1. ASSUME NEW c \in Callers, Request(c) PROVE TypeOK'
  BY <1>1 DEF Request, Step, TypeOK, Steps
<1>2. ASSUME NEW c \in Callers, TakeFlight(c) PROVE TypeOK'
  <2>1. /\ pc' \in [Callers -> Steps] /\ ask' \in [Callers -> Amount]
        /\ flight' \in [Brokers -> Callers \cup {Nobody}] /\ lock' = lock
    BY <1>2, NoneIsAmount DEF TakeFlight, Step, TypeOK, Steps
  <2> QED
    BY <1>2, <2>1 DEF TakeFlight, TypeOK
<1>3. ASSUME NEW c \in Callers, Enter(c) PROVE TypeOK'
  <2>1. /\ pc' \in [Callers -> Steps] /\ ask' \in [Callers -> Amount]
        /\ flight' \in [Brokers -> Callers \cup {Nobody}]
        /\ lock' \in [Brokers -> Callers \cup {Nobody}]
    <3>1. CASE Deny(c)
      BY <3>1, DenyTyped
    <3>2. CASE pc' = [pc EXCEPT ![c] = "begin"]
                 /\ lock' = [lock EXCEPT ![Home[c]] = c] /\ UNCHANGED <<flight, ask>>
      BY <3>2 DEF TypeOK, Steps
    <3> QED
      BY <1>3, <3>1, <3>2 DEF Enter
  <2> QED
    BY <1>3, <2>1 DEF Enter, TypeOK
<1>4. ASSUME NEW c \in Callers, Begin(c) PROVE TypeOK'
  BY <1>4 DEF Begin, Step, TypeOK, Steps
<1>5. ASSUME NEW c \in Callers, BeginTimeout(c) PROVE TypeOK'
  BY <1>5, DenyTyped DEF BeginTimeout, TypeOK
<1>6. ASSUME NEW c \in Callers, Commit(c) PROVE TypeOK'
  <2>1. row[c] = quota /\ quota \in QuotaRow /\ ask[c] \in Amount /\ Home[c] \in Brokers
    BY <1>6 DEF Commit, Writing, TypeOK
  <2>2. quota' \in QuotaRow
    <3>1. CASE quotaOpen /\ Fits(ask[c], row[c].left)
      <4>1. Minus(row[c].left, ask[c]) \in Amount
        BY <2>1, <3>1, MinusIsAmount DEF QuotaRow
      <4>2. Plus(row[c].used[Role[Home[c]]], ask[c]) \in Amount
        BY <2>1, PlusIsAmount DEF QuotaRow
      <4>3. quota' = Reserved(c)
        BY <1>6, <3>1 DEF Commit
      <4> QED
        BY <2>1, <4>1, <4>2, <4>3 DEF Reserved, QuotaRow
    <3>2. CASE ~(quotaOpen /\ Fits(ask[c], row[c].left))
      BY <1>6, <2>1, <3>2 DEF Commit
    <3> QED
      BY <3>1, <3>2
  <2>3. /\ pc' \in [Callers -> Steps] /\ ask' \in [Callers -> Amount]
        /\ flight' \in [Brokers -> Callers \cup {Nobody}]
        /\ lock' \in [Brokers -> Callers \cup {Nobody}]
    BY <1>6, DenyTyped DEF Commit, TypeOK, Steps
  <2>4. /\ row' \in [Callers -> QuotaRow \cup {Nobody}]
        /\ writer' \in Callers \cup {Nobody}
    BY <1>6 DEF Commit, TypeOK
  <2> QED
    BY <1>6, <2>2, <2>3, <2>4 DEF Commit, TypeOK
<1>7. ASSUME NEW c \in Callers, Admit(c) PROVE TypeOK'
  <2> DEFINE b == Home[c]
             left == Minus(broker[b].left, ask[c])
  <2>1. b \in Brokers /\ ask[c] \in Amount /\ broker[b] \in BrokerState
    BY DEF TypeOK
  <2>2. left \in OwnAmount
    BY <1>7, <2>1, MinusIsOwn DEF Admit, Step, Checked, InLock, BrokerState
  <2>3. broker' \in [Brokers -> BrokerState]
    <3> DEFINE new == [broker[b] EXCEPT !.admitted = @ + 1, !.left = left]
    <3>1. new \in BrokerState
      BY <2>1, <2>2, AdmittedTyped
    <3>2. broker' = [broker EXCEPT ![b] = new]
      BY <1>7, <2>1 DEF Admit, TypeOK
    <3> QED
      BY <3>1, <3>2 DEF TypeOK
  <2> QED
    BY <1>7, <2>3 DEF Admit, Step, TypeOK, Steps
<1>8. ASSUME NEW c \in Callers, Send(c) PROVE TypeOK'
  <2>1. Role[Home[c]] \in Roles /\ sent[Role[Home[c]]] \in Amount /\ ask[c] \in Amount
    BY DEF TypeOK
  <2>2. Plus(sent[Role[Home[c]]], ask[c]) \in Amount
    BY <2>1, PlusIsAmount
  <2> QED
    BY <1>8, <2>1, <2>2 DEF Send, Step, TypeOK, Steps
<1>9. ASSUME NEW c \in Callers, Respond(c) \/ ForwardFails(c) PROVE TypeOK'
  BY <1>9 DEF Respond, ForwardFails, Step, TypeOK, Steps
<1>10. ASSUME NEW c \in Callers, CountResponse(c) \/ CountFailure(c) PROVE TypeOK'
  <2> DEFINE b == Home[c]
             counted == [broker[b] EXCEPT !.responses = @ + 1]
             failed == [broker[b] EXCEPT !.failed = @ + 1]
  <2>1. b \in Brokers /\ counted \in BrokerState /\ failed \in BrokerState
    BY DEF TypeOK, BrokerState
  <2>2. broker' = [broker EXCEPT ![b] = counted] \/ broker' = [broker EXCEPT ![b] = failed]
    BY <1>10 DEF CountResponse, CountFailure
  <2>3. broker' \in [Brokers -> BrokerState] /\ pc' \in [Callers -> Steps]
    BY <1>10, <2>1, <2>2 DEF CountResponse, CountFailure, Step, TypeOK, Steps
  <2> QED
    BY <1>10, <2>3 DEF CountResponse, CountFailure, TypeOK
<1>11. ASSUME NEW c \in Callers, ReleaseFlight(c) PROVE TypeOK'
  BY <1>11, NoneIsAmount DEF ReleaseFlight, Step, TypeOK, Steps
<1>12. ASSUME NEW b \in Brokers, Revoke(b) PROVE TypeOK'
  <2> DEFINE new == [broker[b] EXCEPT !.live = FALSE]
  <2>1. broker[b] \in BrokerState
    BY DEF TypeOK
  <2>2. new \in BrokerState
    BY <2>1 DEF BrokerState
  <2>3. broker' \in [Brokers -> BrokerState]
    BY <1>12, <2>2 DEF Revoke, TypeOK
  <2> QED
    BY <1>12, <2>3 DEF Revoke, TypeOK
<1>13. ASSUME NEW b \in Brokers, Crash(b) PROVE TypeOK'
  BY <1>13, NoneIsAmount DEF Crash, Fresh, TypeOK, BrokerState, Steps
<1>14. CASE QuotaExpires
  BY <1>14 DEF QuotaExpires, TypeOK
<1>15. CASE UNCHANGED vars
  BY <1>15 DEF vars, TypeOK
<1> QED
  BY <1>1, <1>2, <1>3, <1>4, <1>5, <1>6, <1>7, <1>8, <1>9, <1>10, <1>11, <1>12, <1>13,
     <1>14, <1>15 DEF Next, Work, Reserve, Forward, Account

LEMMA FlightStep == ASSUME IndInv, [Next]_vars PROVE FlightHeld'
<1> USE DEF IndInv, InFlight, Steps
<1>1. ASSUME NEW c \in Callers, TakeFlight(c) PROVE FlightHeld'
  BY <1>1 DEF TakeFlight, Step, TypeOK, FlightHeld
<1>2. ASSUME NEW c \in Callers, pc[c] \in InFlight, Deny(c) PROVE FlightHeld'
  BY <1>2 DEF Deny, TypeOK, FlightHeld
<1>3. ASSUME NEW c \in Callers, pc[c] \in InFlight, UNCHANGED flight,
             \E to \in InFlight : pc' = [pc EXCEPT ![c] = to]
      PROVE FlightHeld'
  BY <1>3 DEF TypeOK, FlightHeld
<1>4. ASSUME NEW c \in Callers, ReleaseFlight(c) PROVE FlightHeld'
  BY <1>4 DEF ReleaseFlight, Step, TypeOK, FlightHeld
<1>5. ASSUME NEW c \in Callers, Request(c) PROVE FlightHeld'
  BY <1>5 DEF Request, Step, TypeOK, FlightHeld
<1>6. ASSUME NEW c \in Callers, Enter(c) \/ Reserve(c) PROVE FlightHeld'
  BY <1>6, <1>2, <1>3 DEF Enter, Reserve, Begin, BeginTimeout, Commit, Step
<1>7. ASSUME NEW c \in Callers, Admit(c) \/ Forward(c) \/ CountResponse(c) \/ CountFailure(c)
      PROVE FlightHeld'
  BY <1>7, <1>3 DEF Admit, Forward, Send, Respond, ForwardFails, CountResponse, CountFailure, Step
<1>8. ASSUME NEW b \in Brokers, Crash(b) PROVE FlightHeld'
  BY <1>8 DEF Crash, TypeOK, FlightHeld
<1>9. CASE UNCHANGED <<flight, pc>>
  BY <1>9 DEF FlightHeld
<1> QED
  BY <1>1, <1>4, <1>5, <1>6, <1>7, <1>8, <1>9
     DEF Next, Work, Account, Revoke, QuotaExpires, vars

LEMMA LockStep == ASSUME IndInv, [Next]_vars PROVE LockHeld'
<1> USE DEF IndInv, InLock, Steps
<1>1. ASSUME NEW c \in Callers, pc[c] # "idle", pc[c] # "flight", Deny(c),
             lock[Home[c]] \in {c, Nobody}
      PROVE LockHeld'
  BY <1>1 DEF Deny, TypeOK, LockHeld
<1>2. ASSUME NEW c \in Callers, UNCHANGED lock,
             \E to \in Steps : /\ pc' = [pc EXCEPT ![c] = to]
                               /\ pc[c] \in InLock <=> to \in InLock
      PROVE LockHeld'
  <2>0. PICK to \in Steps : pc' = [pc EXCEPT ![c] = to] /\ (pc[c] \in InLock <=> to \in InLock)
    BY <1>2
  <2>1. \A d \in Callers : pc'[d] \in InLock <=> pc[d] \in InLock
    <3>1. \A d \in Callers : d # c => pc'[d] = pc[d]
      BY <2>0 DEF TypeOK
    <3>2. pc'[c] = to
      BY <2>0 DEF TypeOK
    <3> HIDE DEF InLock
    <3> QED
      BY <2>0, <3>1, <3>2
  <2> QED
    BY <1>2, <2>1 DEF LockHeld
<1>3. ASSUME NEW c \in Callers, Enter(c) PROVE LockHeld'
  <2>1. pc[c] = "enter" /\ lock[Home[c]] = Nobody
    BY <1>3 DEF Enter
  <2>2. CASE pc' = [pc EXCEPT ![c] = "begin"] /\ lock' = [lock EXCEPT ![Home[c]] = c]
    BY <2>1, <2>2 DEF TypeOK, LockHeld
  <2> QED
    BY <1>1, <1>3, <2>1, <2>2 DEF Enter
<1>4. ASSUME NEW c \in Callers, Reserve(c) PROVE LockHeld'
  <2>1. pc[c] \in InLock /\ lock[Home[c]] = c
    BY <1>4 DEF Reserve, Begin, BeginTimeout, Commit, Step, LockHeld
  <2> QED
    BY <1>1, <1>2, <1>4, <2>1 DEF Reserve, Begin, BeginTimeout, Commit, Step
<1>5. ASSUME NEW c \in Callers, Admit(c) PROVE LockHeld'
  BY <1>5 DEF Admit, Step, TypeOK, LockHeld
<1>6. ASSUME NEW c \in Callers,
             Request(c) \/ TakeFlight(c) \/ Forward(c) \/ Account(c)
      PROVE LockHeld'
  BY <1>2, <1>6 DEF Request, TakeFlight, Forward, Send, Respond, ForwardFails, Account,
     CountResponse, CountFailure, ReleaseFlight, Step
<1>7. ASSUME NEW b \in Brokers, Crash(b) PROVE LockHeld'
  BY <1>7 DEF Crash, TypeOK, LockHeld
<1>8. CASE UNCHANGED <<lock, pc>>
  BY <1>8 DEF LockHeld
<1> QED
  BY <1>3, <1>4, <1>5, <1>6, <1>7, <1>8 DEF Next, Work, Revoke, QuotaExpires, vars

LEMMA WritingStep == ASSUME IndInv, [Next]_vars PROVE Writing'
<1> USE DEF IndInv, Steps
<1>1. ASSUME NEW c \in Callers, Begin(c) PROVE Writing'
  BY <1>1 DEF Begin, Step, TypeOK, Writing
<1>2. ASSUME NEW c \in Callers, Commit(c) PROVE Writing'
  <2>1. /\ pc[c] = "commit" /\ writer = c /\ writer' = Nobody
        /\ \E to \in {"admit", "idle"} : pc' = [pc EXCEPT ![c] = to]
    BY <1>2 DEF Commit, Deny, Writing
  <2> QED
    BY <2>1 DEF TypeOK, Writing
<1>3. ASSUME NEW c \in Callers, pc[c] # "commit", UNCHANGED <<writer, row, quota>>,
             \E to \in Steps \ {"commit"} : pc' = [pc EXCEPT ![c] = to]
      PROVE Writing'
  BY <1>3 DEF TypeOK, Writing
<1>4. ASSUME NEW c \in Callers, Enter(c) \/ BeginTimeout(c) \/ TakeFlight(c) PROVE Writing'
  BY <1>3, <1>4 DEF Enter, BeginTimeout, TakeFlight, Deny, Step
<1>5. ASSUME NEW c \in Callers, Request(c) \/ Admit(c) \/ Forward(c) \/ Account(c)
      PROVE Writing'
  BY <1>3, <1>5 DEF Request, Admit, Forward, Send, Respond, ForwardFails, Account,
     CountResponse, CountFailure, ReleaseFlight, Step
<1>6. ASSUME NEW b \in Brokers, Crash(b) PROVE Writing'
  BY <1>6 DEF Crash, TypeOK, Writing
<1>7. CASE UNCHANGED <<writer, row, quota, pc>>
  BY <1>7 DEF Writing
<1> QED
  BY <1>1, <1>2, <1>4, <1>5, <1>6, <1>7 DEF Next, Work, Reserve, Revoke, QuotaExpires, vars

LEMMA CheckedStep == ASSUME IndInv, [Next]_vars PROVE Checked'
<1> USE DEF IndInv, InLock, Steps
<1>1. ASSUME NEW c \in Callers, UNCHANGED broker,
             \/ pc' = [pc EXCEPT ![c] = "idle"] /\ ask' = [ask EXCEPT ![c] = None]
             \/ \E to \in Steps : /\ pc' = [pc EXCEPT ![c] = to] /\ ask' = ask
                                  /\ to \in InLock => pc[c] \in InLock
      PROVE Checked'
  <2>1. \A d \in Callers : pc'[d] \in InLock => pc[d] \in InLock /\ ask'[d] = ask[d]
    <3>1. CASE pc' = [pc EXCEPT ![c] = "idle"] /\ ask' = [ask EXCEPT ![c] = None]
      BY <3>1 DEF TypeOK
    <3>2. ASSUME NEW to \in Steps, pc' = [pc EXCEPT ![c] = to], ask' = ask,
                 to \in InLock => pc[c] \in InLock
          PROVE  \A d \in Callers : pc'[d] \in InLock => pc[d] \in InLock /\ ask'[d] = ask[d]
      <4>1. \A d \in Callers : d # c => pc'[d] = pc[d]
        BY <3>2 DEF TypeOK
      <4>2. pc'[c] = to
        BY <3>2 DEF TypeOK
      <4> HIDE DEF InLock
      <4> QED
        BY <3>2, <4>1, <4>2
    <3> QED
      BY <1>1, <3>1, <3>2
  <2> QED
    BY <1>1, <2>1 DEF Checked
<1>2. ASSUME NEW c \in Callers, Enter(c) PROVE Checked'
  <2>1. CASE broker[Home[c]].live /\ Fits(ask[c], broker[Home[c]].left)
             /\ pc' = [pc EXCEPT ![c] = "begin"] /\ UNCHANGED <<ask, broker>>
    BY <2>1 DEF TypeOK, Checked
  <2> QED
    BY <1>1, <1>2, <2>1 DEF Enter, Deny
<1>3. ASSUME NEW c \in Callers, Reserve(c) PROVE Checked'
  BY <1>1, <1>3 DEF Reserve, Begin, BeginTimeout, Commit, Deny, Step
<1>4. ASSUME NEW c \in Callers, Request(c) PROVE Checked'
  BY <1>4 DEF Request, Step, TypeOK, Checked
<1>5. ASSUME NEW c \in Callers, TakeFlight(c) \/ Forward(c) \/ ReleaseFlight(c) PROVE Checked'
  BY <1>1, <1>5 DEF TakeFlight, Forward, Send, Respond, ForwardFails, ReleaseFlight, Step
<1>6. ASSUME NEW b \in Brokers, lock[b] = Nobody \/ lock'[b] = Nobody, LockHeld', UNCHANGED ask,
             \A x \in Brokers \ {b} : broker'[x] = broker[x],
             \A c \in Callers : pc'[c] \in InLock => pc[c] \in InLock,
             \A c \in Callers : Home[c] = b => pc'[c] \notin InLock
      PROVE Checked'
  BY <1>6 DEF TypeOK, Checked
<1>7. ASSUME NEW c \in Callers, Admit(c) \/ CountResponse(c) \/ CountFailure(c) PROVE Checked'
  <2>1. LockHeld' /\ lock'[Home[c]] = Nobody
    BY <1>7, LockStep DEF Admit, CountResponse, CountFailure, Next, Work, Account, TypeOK
  <2>2. \A d \in Callers : Home[d] = Home[c] => pc'[d] \notin InLock
    BY <2>1 DEF LockHeld
  <2>3. \A x \in Brokers \ {Home[c]} : broker'[x] = broker[x]
    BY <1>7 DEF Admit, CountResponse, CountFailure, TypeOK
  <2>4. UNCHANGED ask /\ \A d \in Callers : pc'[d] \in InLock => pc[d] \in InLock
    BY <1>7 DEF Admit, CountResponse, CountFailure, Step, TypeOK
  <2> QED
    BY <1>6, <2>1, <2>2, <2>3, <2>4
<1>8. ASSUME NEW b \in Brokers, Revoke(b) PROVE Checked'
  <2>1. \A d \in Callers : Home[d] = b => pc[d] \notin InLock
    BY <1>8 DEF Revoke, LockHeld
  <2> QED
    BY <1>8, <2>1 DEF Revoke, TypeOK, Checked
<1>9. ASSUME NEW b \in Brokers, Crash(b) PROVE Checked'
  BY <1>9 DEF Crash, TypeOK, Checked
<1>10. CASE UNCHANGED <<broker, pc, ask>>
  BY <1>10 DEF Checked
<1> QED
  BY <1>2, <1>3, <1>4, <1>5, <1>7, <1>8, <1>9, <1>10
     DEF Next, Work, Account, QuotaExpires, vars

(* Invariant: flight, lock and write lock are each held by exactly the thread  *)
(* that is where they protect, and what was checked under them stays true.     *)
THEOREM Invariant == Spec => []IndInv
<1>1. IndInv /\ [Next]_vars => IndInv'
  BY TypeStep, FlightStep, LockStep, WritingStep, CheckedStep DEF IndInv
<1> QED
  BY InitInv, <1>1, PTL DEF Spec

(* TypeCorrect: no balance, of the row or of a broker, is ever negative, with  *)
(* any number of processes reserving, crashing and being replaced.             *)
THEOREM TypeCorrect == Spec => []TypeOK
<1>1. IndInv => TypeOK
  BY DEF IndInv
<1> QED
  BY Invariant, <1>1, PTL

(* NoneRevoked: a broker that is revoked admits nothing (NoneAfterRevoke),     *)
(* also not the request that was in the budget's transaction.                  *)
THEOREM NoneRevoked == Spec => NoneAfterRevoke
<1> DEFINE Live == \A b \in Brokers : broker'[b].admitted > broker[b].admitted => broker[b].live
<1>1. IndInv /\ [Next]_vars => [Live]_vars
  <2> SUFFICES ASSUME IndInv, Next PROVE Live
    OBVIOUS
  <2> USE DEF IndInv
  <2>1. ASSUME NEW c \in Callers, Admit(c) PROVE Live
    <3>1. broker[Home[c]].live
      BY <2>1 DEF Admit, Step, Checked, InLock
    <3>2. \A x \in Brokers \ {Home[c]} : broker'[x] = broker[x]
      BY <2>1 DEF Admit, TypeOK
    <3>3. \A x \in Brokers : broker[x].admitted \in Nat
      BY DEF TypeOK, BrokerState
    <3> QED
      BY <3>1, <3>2, <3>3
  <2>2. ASSUME \A b \in Brokers : broker'[b].admitted \in {0, broker[b].admitted} PROVE Live
    BY <2>2 DEF TypeOK, BrokerState
  <2>3. ASSUME NEW c \in Callers, CountResponse(c) \/ CountFailure(c) PROVE Live
    <3>1. Home[c] \in Brokers /\ broker \in [Brokers -> BrokerState]
      BY DEF TypeOK
    <3>2. \A x \in Brokers : broker[x] \in BrokerState
      BY <3>1
    <3>3. \A x \in Brokers \ {Home[c]} : broker'[x] = broker[x]
      BY <2>3, <3>1 DEF CountResponse, CountFailure
    <3>4. broker'[Home[c]].admitted = broker[Home[c]].admitted
      BY <2>3, <3>1, <3>2 DEF CountResponse, CountFailure, BrokerState
    <3>5. \A x \in Brokers : broker'[x].admitted = broker[x].admitted
      BY <3>3, <3>4
    <3> QED
      BY <2>2, <3>5
  <2>4. ASSUME NEW b \in Brokers, Revoke(b) \/ Crash(b) PROVE Live
    BY <2>2, <2>4 DEF Revoke, Crash, Fresh, TypeOK, BrokerState
  <2>5. CASE UNCHANGED broker
    BY <2>2, <2>5
  <2>6. ASSUME NEW c \in Callers,
               Request(c) \/ TakeFlight(c) \/ Enter(c) \/ Reserve(c) \/ Forward(c)
               \/ ReleaseFlight(c)
        PROVE Live
    BY <2>5, <2>6 DEF Request, TakeFlight, Enter, Reserve, Begin, BeginTimeout, Commit,
       Forward, Send, Respond, ForwardFails, ReleaseFlight
  <2> QED
    BY <2>1, <2>3, <2>4, <2>5, <2>6 DEF Next, Work, Account, QuotaExpires
<1> QED
  BY Invariant, <1>1, PTL DEF Spec, NoneAfterRevoke

-------------------------------------------------------------------------------
(* What the provider has had, and the admitted request it is about to have,    *)
(* are within what the row has reserved for the role.                          *)
Owed == {"admit", "forward"}
RoleOf(c) == Role[Home[c]]
Covered ==
  /\ \A r \in Roles : Fits(sent[r], quota.used[r])
  /\ \A c \in Callers : pc[c] \in Owed =>
       Fits(Plus(sent[RoleOf(c)], ask[c]), quota.used[RoleOf(c)])

LEMMA FitsPlus == ASSUME NEW x \in Amount, NEW y \in Amount, NEW z \in Amount, Fits(x, y)
                  PROVE  Fits(x, Plus(y, z)) /\ Fits(Plus(x, z), Plus(y, z))
  BY DEF Fits, Plus, Amount, Resources

LEMMA CoveredStep ==
  ASSUME IndInv, Covered, [Next]_vars, \A x, y \in Brokers : Role[x] = Role[y] => x = y
  PROVE  Covered'
<1> USE DEF IndInv
<1>1. /\ \A c \in Callers : ask[c] \in Amount /\ RoleOf(c) \in Roles /\ Home[c] \in Brokers
      /\ \A r \in Roles : sent[r] \in Amount /\ quota.used[r] \in Amount
  BY DEF TypeOK, QuotaRow, RoleOf
<1>2. ASSUME UNCHANGED <<sent, quota>>,
             \A c \in Callers : pc'[c] \in Owed => pc[c] \in Owed /\ ask'[c] = ask[c]
      PROVE  Covered'
  BY <1>2 DEF Covered, RoleOf
<1>3. ASSUME NEW c \in Callers, UNCHANGED <<sent, quota>>,
             \/ \E to \in Steps \ Owed : pc' = [pc EXCEPT ![c] = to]
             \/ pc[c] = "admit" /\ pc' = [pc EXCEPT ![c] = "forward"],
             \A d \in Callers \ {c} : ask'[d] = ask[d],
             pc[c] = "admit" => ask' = ask \/ pc'[c] = "idle"
      PROVE  Covered'
  BY <1>2, <1>3 DEF TypeOK, Owed
<1>4. ASSUME NEW c \in Callers, Commit(c), quotaOpen /\ Fits(ask[c], row[c].left)
      PROVE  Covered'
  <2> DEFINE used == quota.used
             more == Plus(used[RoleOf(c)], ask[c])
  <2>1. /\ quota'.used = [used EXCEPT ![RoleOf(c)] = more]
        /\ pc' = [pc EXCEPT ![c] = "admit"] /\ UNCHANGED <<ask, sent>>
    BY <1>4 DEF Commit, Reserved, Writing, RoleOf
  <2>2. used \in [Roles -> Amount]
    BY DEF TypeOK, QuotaRow
  <2>3. \A r \in Roles : quota'.used[r] = IF r = RoleOf(c) THEN more ELSE used[r]
    BY <1>1, <2>1, <2>2
  <2>4. Fits(sent[RoleOf(c)], more) /\ Fits(Plus(sent[RoleOf(c)], ask[c]), more)
    BY <1>1, FitsPlus DEF Covered
  <2>5. \A d \in Callers : pc'[d] \in Owed => d = c \/ pc[d] \in Owed
    BY <2>1 DEF TypeOK
  <2>6. \A r \in Roles : Fits(sent'[r], quota'.used[r])
    BY <2>1, <2>3, <2>4 DEF Covered
  <2>7. ASSUME NEW d \in Callers, pc[d] \in Owed, d # c PROVE RoleOf(d) # RoleOf(c)
    BY <1>1, <1>4, <2>7 DEF FlightHeld, InFlight, Steps, Owed, Commit, RoleOf
  <2>8. ASSUME NEW d \in Callers, pc'[d] \in Owed
        PROVE  Fits(Plus(sent'[RoleOf(d)], ask'[d]), quota'.used[RoleOf(d)])
    <3>1. CASE d = c
      BY <1>1, <2>1, <2>3, <2>4, <3>1
    <3>2. CASE d # c
      BY <1>1, <2>1, <2>3, <2>5, <2>7, <2>8, <3>2 DEF Covered
    <3> QED
      BY <3>1, <3>2
  <2> QED
    BY <2>6, <2>8 DEF Covered, RoleOf
<1>5. ASSUME NEW c \in Callers, Commit(c), ~(quotaOpen /\ Fits(ask[c], row[c].left))
      PROVE  Covered'
  BY <1>3, <1>5 DEF Commit, Deny, TypeOK, Steps, Owed
<1>6. ASSUME NEW c \in Callers, Send(c) PROVE Covered'
  <2>1. /\ sent' = [sent EXCEPT ![RoleOf(c)] = Plus(@, ask[c])]
        /\ pc[c] = "forward" /\ pc' = [pc EXCEPT ![c] = "await"] /\ UNCHANGED <<ask, quota>>
    BY <1>6 DEF Send, Step, RoleOf
  <2>2. \A r \in Roles : sent'[r] = IF r = RoleOf(c) THEN Plus(sent[r], ask[c]) ELSE sent[r]
    BY <1>1, <2>1 DEF TypeOK
  <2>3. \A r \in Roles : Fits(sent'[r], quota'.used[r])
    BY <2>1, <2>2 DEF Covered, Owed
  <2>4. ASSUME NEW d \in Callers, pc'[d] \in Owed
        PROVE  d # c /\ pc[d] \in Owed /\ RoleOf(d) # RoleOf(c)
    <3>1. d # c /\ pc[d] \in Owed
      BY <2>1, <2>4 DEF TypeOK, Owed
    <3> QED
      BY <1>1, <2>1, <3>1 DEF FlightHeld, InFlight, Steps, Owed, RoleOf
  <2>5. \A d \in Callers : pc'[d] \in Owed =>
          Fits(Plus(sent'[RoleOf(d)], ask'[d]), quota'.used[RoleOf(d)])
    BY <1>1, <2>1, <2>2, <2>4 DEF Covered
  <2> QED
    BY <2>3, <2>5 DEF Covered, RoleOf
<1>7. ASSUME NEW c \in Callers, Request(c) \/ TakeFlight(c) \/ Enter(c) PROVE Covered'
  BY <1>3, <1>7 DEF Request, TakeFlight, Enter, Deny, Step, TypeOK, Steps, Owed
<1>8. ASSUME NEW c \in Callers, Begin(c) \/ BeginTimeout(c) \/ Admit(c) PROVE Covered'
  BY <1>3, <1>8 DEF Begin, BeginTimeout, Admit, Deny, Step, TypeOK, Steps, Owed
<1>9. ASSUME NEW c \in Callers, Respond(c) \/ ForwardFails(c) \/ Account(c) PROVE Covered'
  BY <1>3, <1>9 DEF Respond, ForwardFails, Account, CountResponse, CountFailure, ReleaseFlight,
     Step, TypeOK, Steps, Owed
<1>10. ASSUME NEW b \in Brokers, Crash(b) PROVE Covered'
  BY <1>2, <1>10 DEF Crash, TypeOK, Owed
<1>11. CASE UNCHANGED <<sent, quota, pc, ask>>
  BY <1>2, <1>11
<1> QED
  BY <1>4, <1>5, <1>6, <1>7, <1>8, <1>9, <1>10, <1>11
     DEF Next, Work, Reserve, Forward, Revoke, QuotaExpires, vars

(* Prepaid: where every role is drawn on by one broker at a time, whatever the *)
(* provider has received was reserved in the row before it was sent            *)
(* (CommitPrecedesAdmission), through every crash and replacement.             *)
THEOREM Prepaid ==
  ASSUME \A x, y \in Brokers : Role[x] = Role[y] => x = y
  PROVE  Spec => []CommitPrecedesAdmission
<1>1. Init => Covered
  BY DEF Init, Covered, Fits, None, Owed, Resources
<1>2. IndInv /\ Covered /\ [Next]_vars => Covered'
  BY CoveredStep
<1>3. Covered => CommitPrecedesAdmission
  BY DEF Covered, CommitPrecedesAdmission
<1> QED
  BY Invariant, <1>1, <1>2, <1>3, PTL DEF Spec

-------------------------------------------------------------------------------
(* The counters of status() and the request that is out.                       *)

Out(b) == {c \in Callers : Home[c] = b /\ pc[c] \in InForward}
Balance(b) == broker[b].admitted - broker[b].responses - broker[b].failed
Balanced == \A b \in Brokers : Balance(b) = IF Out(b) = {} THEN 0 ELSE 1

LEMMA OneOut ==
  ASSUME IndInv, NEW c \in Callers, pc[c] \in InFlight
  PROVE  /\ Home[c] \in Brokers
         /\ Out(Home[c]) = IF pc[c] \in InForward THEN {c} ELSE {}
<1>1. Home[c] \in Brokers
  OBVIOUS
<1>2. \A d \in Out(Home[c]) : d = c
  BY <1>1 DEF IndInv, FlightHeld, Out, InFlight, InForward, Steps
<1> QED
  BY <1>1, <1>2 DEF Out

(* A thread that neither starts nor ends a call at the provider.               *)
LEMMA SameOut ==
  ASSUME TypeOK, NEW c \in Callers, NEW to, pc' = [pc EXCEPT ![c] = to],
         pc[c] \in InForward <=> to \in InForward, Balanced, UNCHANGED broker
  PROVE  Balanced'
<1>1. \A d \in Callers : pc'[d] \in InForward <=> pc[d] \in InForward
  BY DEF TypeOK
<1>2. \A b \in Brokers : Out(b)' = Out(b)
  BY <1>1 DEF Out
<1> QED
  BY <1>2 DEF Balanced, Balance

(* A thread c that does: the requests out, and the balance, of its broker only.*)
LEMMA OutMoves ==
  ASSUME IndInv, NEW c \in Callers, pc[c] \in InFlight, NEW to \in InFlight,
         pc' = [pc EXCEPT ![c] = to]
  PROVE  /\ Out(Home[c])' = IF to \in InForward THEN {c} ELSE {}
         /\ \A b \in Brokers \ {Home[c]} : Out(b)' = Out(b)
<1>1. pc'[c] = to /\ \A d \in Callers \ {c} : pc'[d] = pc[d]
  BY DEF IndInv, TypeOK
<1>2. \A d \in Callers \ {c} : ~(Home[d] = Home[c] /\ pc[d] \in InForward)
  BY OneOut DEF Out
<1>3. Out(Home[c])' = IF to \in InForward THEN {c} ELSE {}
  BY <1>1, <1>2 DEF Out
<1>4. \A b \in Brokers \ {Home[c]} : Out(b)' = Out(b)
  BY <1>1 DEF Out
<1> QED
  BY <1>3, <1>4

LEMMA AdmitBalanced ==
  ASSUME IndInv, Balanced, NEW c \in Callers, Admit(c)
  PROVE  Balanced'
<1>1. /\ pc[c] = "admit" /\ pc' = [pc EXCEPT ![c] = "forward"]
      /\ pc[c] \in InFlight /\ "forward" \in InFlight
  BY DEF Admit, Step, InFlight, Steps
<1>2. Out(Home[c]) = {} /\ Home[c] \in Brokers
  BY <1>1, OneOut DEF InForward
<1>3. Out(Home[c])' = {c} /\ \A b \in Brokers \ {Home[c]} : Out(b)' = Out(b)
  BY <1>1, OutMoves DEF InForward
<1> DEFINE B == broker[Home[c]]
<1>4. B \in BrokerState
  BY <1>2 DEF IndInv, TypeOK
<1>5. /\ broker'[Home[c]].admitted = B.admitted + 1
      /\ broker'[Home[c]].responses = B.responses /\ broker'[Home[c]].failed = B.failed
      /\ \A b \in Brokers \ {Home[c]} : broker'[b] = broker[b]
  <2>1. broker' = [broker EXCEPT ![Home[c]] = [B EXCEPT !.admitted = @ + 1,
                                                        !.left = Minus(@, ask[c])]]
    BY <1>4 DEF Admit, IndInv, TypeOK, BrokerState
  <2> DEFINE N == [B EXCEPT !.admitted = @ + 1, !.left = Minus(@, ask[c])]
  <2>2. N.admitted = B.admitted + 1 /\ N.responses = B.responses /\ N.failed = B.failed
    BY <1>4 DEF BrokerState
  <2> HIDE DEF N
  <2>3. broker'[Home[c]] = N /\ \A b \in Brokers \ {Home[c]} : broker'[b] = broker[b]
    BY <1>2, <2>1 DEF IndInv, TypeOK, N
  <2> QED
    BY <2>2, <2>3
<1>6. Balance(Home[c])' = 1
  <2>1. B.admitted - B.responses - B.failed = 0
    BY <1>2 DEF Balanced, Balance
  <2>2. B.admitted \in Int /\ B.responses \in Int /\ B.failed \in Int
    BY <1>4 DEF BrokerState
  <2>3. Balance(Home[c])' = (B.admitted + 1) - B.responses - B.failed
    BY <1>5 DEF Balance
  <2> HIDE DEF B
  <2> QED
    BY <2>1, <2>2, <2>3
<1>7. ASSUME NEW b \in Brokers PROVE Balance(b)' = IF Out(b)' = {} THEN 0 ELSE 1
  <2>1. CASE b = Home[c]
    BY <1>3, <1>6, <2>1
  <2>2. CASE b # Home[c]
    <3>1. Balance(b)' = Balance(b)
      BY <1>5, <2>2 DEF Balance
    <3> QED
      BY <1>3, <2>2, <3>1 DEF Balanced
  <2> QED
    BY <2>1, <2>2
<1> QED
  BY <1>7 DEF Balanced

LEMMA CountBalanced ==
  ASSUME IndInv, Balanced, NEW c \in Callers, CountResponse(c) \/ CountFailure(c)
  PROVE  Balanced'
<1>1. /\ pc[c] \in InForward /\ pc' = [pc EXCEPT ![c] = "release"]
      /\ pc[c] \in InFlight /\ "release" \in InFlight
  BY DEF CountResponse, CountFailure, Step, InFlight, InForward, Steps
<1>2. Out(Home[c]) # {} /\ Home[c] \in Brokers
  BY <1>1, OneOut
<1>3. Out(Home[c])' = {} /\ \A b \in Brokers \ {Home[c]} : Out(b)' = Out(b)
  BY <1>1, OutMoves DEF InForward
<1> DEFINE B == broker[Home[c]]
<1>4. B \in BrokerState
  BY <1>2 DEF IndInv, TypeOK
<1>5. /\ broker'[Home[c]].admitted = B.admitted
      /\ broker'[Home[c]].responses + broker'[Home[c]].failed = B.responses + B.failed + 1
      /\ broker'[Home[c]].responses \in Nat /\ broker'[Home[c]].failed \in Nat
      /\ \A b \in Brokers \ {Home[c]} : broker'[b] = broker[b]
  <2>1. CASE CountResponse(c)
    <3> DEFINE N == [B EXCEPT !.responses = @ + 1]
    <3>1. N.admitted = B.admitted /\ N.responses = B.responses + 1 /\ N.failed = B.failed
      BY <1>4 DEF BrokerState
    <3>2. broker' = [broker EXCEPT ![Home[c]] = N]
      BY <2>1 DEF CountResponse
    <3> HIDE DEF N
    <3>3. broker'[Home[c]] = N /\ \A b \in Brokers \ {Home[c]} : broker'[b] = broker[b]
      BY <1>2, <3>2 DEF IndInv, TypeOK
    <3> QED
      BY <1>4, <3>1, <3>3 DEF BrokerState
  <2>2. CASE CountFailure(c)
    <3> DEFINE N == [B EXCEPT !.failed = @ + 1]
    <3>1. N.admitted = B.admitted /\ N.responses = B.responses /\ N.failed = B.failed + 1
      BY <1>4 DEF BrokerState
    <3>2. broker' = [broker EXCEPT ![Home[c]] = N]
      BY <2>2 DEF CountFailure
    <3> HIDE DEF N
    <3>3. broker'[Home[c]] = N /\ \A b \in Brokers \ {Home[c]} : broker'[b] = broker[b]
      BY <1>2, <3>2 DEF IndInv, TypeOK
    <3> QED
      BY <1>4, <3>1, <3>3 DEF BrokerState
  <2> QED
    BY <2>1, <2>2
<1>6. Balance(Home[c])' = 0
  BY <1>2, <1>4, <1>5 DEF Balanced, Balance, BrokerState
<1>7. ASSUME NEW b \in Brokers PROVE Balance(b)' = IF Out(b)' = {} THEN 0 ELSE 1
  <2>1. CASE b = Home[c]
    BY <1>3, <1>6, <2>1
  <2>2. CASE b # Home[c]
    <3>1. Balance(b)' = Balance(b)
      BY <1>5, <2>2 DEF Balance
    <3> QED
      BY <1>3, <2>2, <3>1 DEF Balanced
  <2> QED
    BY <2>1, <2>2
<1> QED
  BY <1>7 DEF Balanced

LEMMA BalancedStep == ASSUME IndInv, Balanced, [Next]_vars PROVE Balanced'
<1>0. TypeOK
  BY DEF IndInv
<1>1. ASSUME NEW c \in Callers, Request(c) PROVE Balanced'
  BY <1>0, <1>1, SameOut DEF Request, Step, InForward
<1>2. ASSUME NEW c \in Callers, TakeFlight(c) PROVE Balanced'
  BY <1>0, <1>2, SameOut DEF TakeFlight, Step, InForward
<1>3. ASSUME NEW c \in Callers, Enter(c) PROVE Balanced'
  BY <1>0, <1>3, SameOut DEF Enter, Deny, InForward
<1>4. ASSUME NEW c \in Callers, Reserve(c) PROVE Balanced'
  <2>1. /\ UNCHANGED broker /\ pc[c] \notin InForward
        /\ \E to \in {"commit", "idle", "admit"} : pc' = [pc EXCEPT ![c] = to]
    BY <1>4 DEF Reserve, Begin, BeginTimeout, Commit, Step, Deny, InForward
  <2> QED
    BY <1>0, <2>1, SameOut DEF InForward
<1>5. ASSUME NEW c \in Callers, Forward(c) PROVE Balanced'
  <2>1. /\ UNCHANGED broker /\ pc[c] \in InForward
        /\ \E to \in {"await", "count", "fail"} : pc' = [pc EXCEPT ![c] = to]
    BY <1>5 DEF Forward, Send, Respond, ForwardFails, Step, InForward
  <2> QED
    BY <1>0, <2>1, SameOut DEF InForward
<1>6. ASSUME NEW c \in Callers, ReleaseFlight(c) PROVE Balanced'
  BY <1>0, <1>6, SameOut DEF ReleaseFlight, Step, InForward
<1>7. ASSUME NEW b \in Brokers, Revoke(b) PROVE Balanced'
  <2>1. \A x \in Brokers : Out(x)' = Out(x)
    BY <1>7 DEF Revoke, Out
  <2>2. \A x \in Brokers : /\ broker'[x].admitted = broker[x].admitted
                            /\ broker'[x].responses = broker[x].responses
                            /\ broker'[x].failed = broker[x].failed
    BY <1>0, <1>7 DEF Revoke, TypeOK, BrokerState
  <2> QED
    BY <2>1, <2>2 DEF Balanced, Balance
<1>8. ASSUME NEW b \in Brokers, Crash(b) PROVE Balanced'
  <2>1. Out(b)' = {}
    BY <1>8 DEF Crash, Out, InForward
  <2>2. \A x \in Brokers \ {b} : Out(x)' = Out(x)
    BY <1>8 DEF Crash, Out
  <2>3. Balance(b)' = 0 /\ \A x \in Brokers \ {b} : Balance(x)' = Balance(x)
    BY <1>0, <1>8 DEF Crash, TypeOK, Balance, Fresh
  <2> QED
    BY <2>1, <2>2, <2>3 DEF Balanced
<1>9. CASE UNCHANGED <<broker, pc>>
  BY <1>9 DEF Balanced, Balance, Out
<1> QED
  BY <1>1, <1>2, <1>3, <1>4, <1>5, <1>6, <1>7, <1>8, <1>9, AdmitBalanced, CountBalanced
     DEF Next, Work, Account, QuotaExpires, vars

(* Reported: admitted_calls - responses - failed_calls is the number of        *)
(* requests a broker has out, one at most (InflightTruthful), with any number  *)
(* of threads, through failures, denials, revocations and crashes.             *)
THEOREM Reported == Spec => []InflightTruthful
<1>1. Init => Balanced
  BY DEF Init, Balanced, Balance, Out, Fresh, InForward
<1>2. IndInv /\ Balanced /\ [Next]_vars => Balanced'
  BY BalancedStep
<1>3. IndInv /\ Balanced => InflightTruthful
  <2> SUFFICES ASSUME IndInv, Balanced, NEW b \in Brokers
               PROVE  Balance(b) = Cardinality(Out(b)) /\ Cardinality(Out(b)) <= 1
    BY DEF InflightTruthful, Out, Balance
  <2>1. CASE Out(b) = {}
    BY <2>1, FS_EmptySet DEF Balanced
  <2>2. CASE Out(b) # {}
    <3>1. PICK c \in Callers : Home[c] = b /\ pc[c] \in InForward
      BY <2>2 DEF Out
    <3>2. Out(b) = {c}
      BY <3>1, OneOut DEF InFlight, InForward, Steps
    <3>3. Cardinality(Out(b)) = 1
      BY <3>2, FS_Singleton
    <3>4. Balance(b) = 1
      BY <2>2 DEF Balanced
    <3> QED
      BY <3>3, <3>4
  <2> QED
    BY <2>1, <2>2
<1> QED
  BY Invariant, <1>1, <1>2, <1>3, PTL DEF Spec

-------------------------------------------------------------------------------
(* What is reserved and what is left add up to the budget.                     *)

Conserved == \A k \in Resources :
  IsFiniteSet(Units(k)) /\ Cardinality(Units(k)) + quota.left[k] = Quota[k]

(* A reservation adds as many units as the request costs.                      *)
LEMMA CommitConserved ==
  ASSUME IndInv, Conserved, NEW c \in Callers, pc[c] = "commit",
         Fits(ask[c], row[c].left), quota' = Reserved(c), NEW k \in Resources
  PROVE  IsFiniteSet(Units(k))' /\ (Cardinality(Units(k)) + quota.left[k] = Quota[k])'
<1> DEFINE me == Role[Home[c]]
           old == quota.used[me][k]
           ad == ask[c][k]
           More == {me} \X ((old + 1)..(old + ad))
<1>1. /\ row[c] = quota /\ quota \in QuotaRow /\ ask[c] \in Amount /\ me \in Roles
      /\ quota.left \in Amount /\ quota.used \in [Roles -> Amount]
  BY DEF IndInv, TypeOK, Writing, QuotaRow
<1>2. old \in Nat /\ ad \in Nat /\ quota.left[k] \in Nat /\ Quota[k] \in Nat
  BY <1>1 DEF Amount
<1>3. /\ quota'.left = Minus(quota.left, ask[c])
      /\ quota'.used = [quota.used EXCEPT ![me] = Plus(@, ask[c])]
  BY <1>1 DEF Reserved
<1>4. quota'.left[k] = quota.left[k] - ad
  BY <1>1, <1>3 DEF Minus, Amount
<1>5. /\ quota'.used[me][k] = old + ad
      /\ \A r \in Roles \ {me} : quota'.used[r][k] = quota.used[r][k]
  BY <1>1, <1>3 DEF Plus
<1>6. Units(k)' = Units(k) \cup More
  <2>1. 1..(old + ad) = (1..old) \cup ((old + 1)..(old + ad))
    BY <1>2
  <2> HIDE DEF old, ad, me
  <2>2. {me} \X (1..quota'.used[me][k]) = ({me} \X (1..quota.used[me][k])) \cup More
    BY <1>5, <2>1 DEF old
  <2> QED
    BY <1>1, <1>5, <2>2 DEF Units
<1>7. Units(k) \cap More = {}
  <2> SUFFICES ASSUME NEW x, x \in Units(k), x \in More PROVE FALSE
    OBVIOUS
  <2>1. PICK r \in Roles : x \in {r} \X (1..quota.used[r][k])
    BY DEF Units
  <2>2. x[1] = r /\ x[2] \in 1..quota.used[r][k] /\ x[1] = me /\ x[2] \in (old + 1)..(old + ad)
    BY <2>1
  <2> QED
    BY <1>2, <2>2
<1>8. IsFiniteSet(More) /\ Cardinality(More) = ad
  <2> DEFINE span == (old + 1)..(old + ad)
  <2> HIDE DEF old, ad, me
  <2>1. old + 1 \in Int /\ old + ad \in Int
    BY <1>2
  <2>2. IsFiniteSet(span) /\ Cardinality(span) = IF old + 1 > old + ad THEN 0
                                                 ELSE (old + ad) - (old + 1) + 1
    BY <2>1, FS_Interval
  <2>3. IsFiniteSet(span) /\ Cardinality(span) = ad
    BY <1>2, <2>2
  <2> HIDE DEF span
  <2>4. IsFiniteSet({me}) /\ Cardinality({me}) = 1
    BY FS_Singleton
  <2>5. IsFiniteSet({me} \X span) /\ Cardinality({me} \X span)
                                     = Cardinality({me}) * Cardinality(span)
    BY <2>3, <2>4, FS_Product
  <2>6. IsFiniteSet({me} \X span) /\ Cardinality({me} \X span) = ad
    BY <1>2, <2>3, <2>4, <2>5
  <2> QED
    BY <2>6 DEF span
<1> HIDE DEF More, old, ad, me
<1>9. IsFiniteSet(Units(k)) /\ Cardinality(Units(k)) + quota.left[k] = Quota[k]
  BY DEF Conserved
<1>10. IsFiniteSet(Units(k) \cup More)
       /\ Cardinality(Units(k) \cup More) = Cardinality(Units(k)) + ad
  <2>1. Cardinality({}) = 0
    BY FS_EmptySet
  <2>2. Cardinality(Units(k)) \in Nat
    BY <1>9, FS_CardinalityType
  <2> DEFINE U == Units(k)
  <2> HIDE DEF U
  <2>3. IsFiniteSet(U) /\ IsFiniteSet(More)
    BY <1>8, <1>9 DEF U
  <2>4. /\ IsFiniteSet(U \cup More)
        /\ Cardinality(U \cup More) = Cardinality(U) + Cardinality(More) - Cardinality(U \cap More)
    BY <2>3, FS_Union
  <2>5. Cardinality(U \cap More) = 0 /\ Cardinality(U) \in Nat
    BY <1>7, <2>1, <2>2 DEF U
  <2> QED
    BY <1>2, <1>8, <2>4, <2>5 DEF U
<1>11. Cardinality(Units(k)) \in Nat
  BY <1>9, FS_CardinalityType
<1> QED
  BY <1>2, <1>4, <1>6, <1>9, <1>10, <1>11

LEMMA ConservedStep == ASSUME IndInv, Conserved, [Next]_vars PROVE Conserved'
<1>1. CASE UNCHANGED quota
  BY <1>1 DEF Conserved, Units
<1>2. ASSUME NEW c \in Callers, Commit(c) PROVE Conserved'
  <2>1. CASE UNCHANGED quota
    BY <1>1, <2>1
  <2>2. CASE Fits(ask[c], row[c].left) /\ quota' = Reserved(c)
    BY <1>2, <2>2, CommitConserved DEF Commit, Conserved
  <2> QED
    BY <1>2, <2>1, <2>2 DEF Commit
<1>3. ASSUME NEW c \in Callers, Request(c) \/ TakeFlight(c) \/ Enter(c) \/ Begin(c)
             \/ BeginTimeout(c) \/ Admit(c) \/ Forward(c) \/ Account(c)
      PROVE  UNCHANGED quota
  BY <1>3 DEF Request, TakeFlight, Enter, Begin, BeginTimeout, Admit, Forward, Send, Respond,
              ForwardFails, Account, CountResponse, CountFailure, ReleaseFlight
<1>4. ASSUME NEW b \in Brokers, Revoke(b) \/ Crash(b) PROVE UNCHANGED quota
  BY <1>4 DEF Revoke, Crash
<1> QED
  BY <1>1, <1>2, <1>3, <1>4 DEF Next, Work, Reserve, QuotaExpires, vars

(* Kept: what the roles have reserved and what is left add up to the budget    *)
(* (QuotaConserved), for every budget, any number of brokers, threads and      *)
(* roles, concurrent reservations and kills.                                   *)
THEOREM Kept == Spec => []QuotaConserved
<1>1. Init => Conserved
  <2> SUFFICES ASSUME Init, NEW k \in Resources
               PROVE  IsFiniteSet(Units(k)) /\ Cardinality(Units(k)) + quota.left[k] = Quota[k]
    BY DEF Conserved
  <2>1. \A r \in Roles : quota.used[r][k] = 0
    BY DEF Init, None
  <2>2. Units(k) = {}
    BY <2>1 DEF Units
  <2>3. quota.left = Quota /\ Quota[k] \in Nat
    BY DEF Init, Amount
  <2> QED
    BY <2>2, <2>3, FS_EmptySet
<1>2. IndInv /\ Conserved /\ [Next]_vars => Conserved'
  BY ConservedStep
<1>3. Conserved => QuotaConserved
  BY DEF Conserved, QuotaConserved
<1> QED
  BY Invariant, <1>1, <1>2, <1>3, PTL DEF Spec
================================================================================
