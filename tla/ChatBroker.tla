------------------------------ MODULE ChatBroker ------------------------------
(* ChatCredentialBroker (eval/credential_broker.py) admits chat requests of    *)
(* its caller threads one at a time; brokers of several processes and          *)
(* generations draw on one PersistentChatBudget (eval/persistent_chat_budget.  *)
(* py), a SQLite row that is written before a request is admitted.             *)
EXTENDS Integers, FiniteSets

CONSTANTS Brokers, Callers,
          Home,       \* [Callers -> Brokers]: the broker a thread calls
          Roles, Role,          \* [Brokers -> Roles]: its budget_role
          Requests,   \* what one request costs: [Resources -> Nat], calls = 1
          Quota,      \* [Resources -> Nat]: the shared budget as created
          Allowance,  \* [Brokers -> [Own -> Nat]]: the broker's own budget
          Nobody,
          MaxCrashes  \* bound on what a behaviour contains

(* Calls, requested output tokens and request bytes are counted alike.         *)
Resources == {"calls", "output", "bytes"}
Own == {"calls", "output"}
Amount == [Resources -> Nat]
OwnAmount == [Own -> Nat]

ASSUME BrokerAssumption ==
  /\ Home \in [Callers -> Brokers] /\ Role \in [Brokers -> Roles]
  /\ Requests \subseteq Amount /\ \A r \in Requests : r["calls"] = 1
  /\ Quota \in Amount /\ Allowance \in [Brokers -> OwnAmount]
  /\ Nobody \notin Callers /\ MaxCrashes \in Nat

VARIABLES
  quota,      \* the row: [left : Amount, used : [Roles -> Amount]]
  quotaOpen,  \* expires_at has not passed
  writer,     \* who holds SQLite's write lock
  broker,     \* [Brokers -> the broker's fields]
  flight,     \* [Brokers -> holder of _flight]
  lock,       \* [Brokers -> holder of _lock across steps]
  pc, ask,    \* [Callers -> next step, the request in hand]
  row,        \* [Callers -> the row as read inside an open transaction]
  sent,       \* [Roles -> Amount]: what the provider has received
  crashes

vars == <<quota, quotaOpen, writer, broker, flight, lock, pc, ask, row, sent, crashes>>

None == [k \in Resources |-> 0]
Plus(x, y) == [k \in Resources |-> x[k] + y[k]]
Minus(x, y) == [k \in DOMAIN x |-> x[k] - y[k]]
Fits(x, y) == \A k \in DOMAIN y : x[k] <= y[k]

Fresh(b) == [live |-> TRUE, left |-> Allowance[b], admitted |-> 0, responses |-> 0,
             failed |-> 0]

Init ==
  /\ quota = [left |-> Quota, used |-> [r \in Roles |-> None]]
  /\ quotaOpen = TRUE
  /\ writer = Nobody
  /\ broker = [b \in Brokers |-> Fresh(b)]
  /\ flight = [b \in Brokers |-> Nobody]
  /\ lock = [b \in Brokers |-> Nobody]
  /\ pc = [c \in Callers |-> "idle"]
  /\ ask = [c \in Callers |-> None]
  /\ row = [c \in Callers |-> Nobody]
  /\ sent = [r \in Roles |-> None]
  /\ crashes = 0

Step(c, from, to) == pc[c] = from /\ pc' = [pc EXCEPT ![c] = to]

(* The exception leaves chat through its finally clause: nothing was admitted. *)
Deny(c) ==
  /\ pc' = [pc EXCEPT ![c] = "idle"]
  /\ ask' = [ask EXCEPT ![c] = None]
  /\ flight' = [flight EXCEPT ![Home[c]] = Nobody]
  /\ lock' = [lock EXCEPT ![Home[c]] = Nobody]

-------------------------------------------------------------------------------
(* chat: _authorize, then the payload checks, which do not depend on state.    *)
Request(c) == \E r \in Requests :
  /\ broker[Home[c]].live /\ lock[Home[c]] = Nobody
  /\ Step(c, "idle", "flight")
  /\ ask' = [ask EXCEPT ![c] = r]
  /\ UNCHANGED <<quota, quotaOpen, writer, broker, flight, lock, row, sent, crashes>>

TakeFlight(c) ==
  /\ IF flight[Home[c]] = Nobody
     THEN Step(c, "flight", "enter") /\ flight' = [flight EXCEPT ![Home[c]] = c]
          /\ UNCHANGED <<lock, ask>>
     ELSE Step(c, "flight", "idle") /\ ask' = [ask EXCEPT ![c] = None]
          /\ UNCHANGED <<flight, lock>>
  /\ UNCHANGED <<quota, quotaOpen, writer, broker, row, sent, crashes>>

(* The broker's own checks, made under _lock, which stays held until Admit.    *)
(* The capability's deadline may have passed at any time.                      *)
Enter(c) ==
  /\ pc[c] = "enter" /\ lock[Home[c]] = Nobody
  /\ \/ /\ broker[Home[c]].live /\ Fits(ask[c], broker[Home[c]].left)
        /\ pc' = [pc EXCEPT ![c] = "begin"]
        /\ lock' = [lock EXCEPT ![Home[c]] = c]
        /\ UNCHANGED <<flight, ask>>
     \/ Deny(c)
  /\ UNCHANGED <<quota, quotaOpen, writer, broker, row, sent, crashes>>

(* Mutant: a deferred transaction reads before it holds the write lock.        *)
Begin_Deferred(c) ==
  /\ Step(c, "begin", "commit")
  /\ row' = [row EXCEPT ![c] = quota]
  /\ UNCHANGED <<quota, quotaOpen, writer, broker, flight, lock, ask, sent, crashes>>

(* reserve: BEGIN IMMEDIATE takes SQLite's write lock, then the row is read.   *)
Begin(c) ==
  /\ writer = Nobody
  /\ Step(c, "begin", "commit")
  /\ writer' = c
  /\ row' = [row EXCEPT ![c] = quota]
  /\ UNCHANGED <<quota, quotaOpen, broker, flight, lock, ask, sent, crashes>>

BeginTimeout(c) ==
  /\ pc[c] = "begin" /\ writer # Nobody
  /\ Deny(c)
  /\ UNCHANGED <<quota, quotaOpen, writer, broker, row, sent, crashes>>

(* Mutant: a role's reservation replaces its earlier ones.                     *)
Reserved_Replaces(c) == [left |-> Minus(row[c].left, ask[c]),
                         used |-> [row[c].used EXCEPT ![Role[Home[c]]] = ask[c]]]

Reserved(c) == [left |-> Minus(row[c].left, ask[c]),
                used |-> [row[c].used EXCEPT ![Role[Home[c]]] = Plus(@, ask[c])]]

(* Mutant: the balance is not looked at.                                       *)
Commit_Unchecked(c) ==
  /\ Step(c, "commit", "admit")
  /\ quota' = Reserved(c)
  /\ row' = [row EXCEPT ![c] = Nobody]
  /\ writer' = IF writer = c THEN Nobody ELSE writer
  /\ UNCHANGED <<quotaOpen, broker, flight, lock, ask, sent, crashes>>

Commit(c) ==
  /\ pc[c] = "commit"
  /\ IF quotaOpen /\ Fits(ask[c], row[c].left)
     THEN /\ quota' = Reserved(c)
          /\ pc' = [pc EXCEPT ![c] = "admit"]
          /\ UNCHANGED <<flight, lock, ask>>
     ELSE Deny(c) /\ UNCHANGED quota
  /\ row' = [row EXCEPT ![c] = Nobody]
  /\ writer' = IF writer = c THEN Nobody ELSE writer
  /\ UNCHANGED <<quotaOpen, broker, sent, crashes>>

Admit(c) ==
  /\ Step(c, "admit", "forward")
  /\ broker' = [broker EXCEPT ![Home[c]].admitted = @ + 1,
                              ![Home[c]].left = Minus(@, ask[c])]
  /\ lock' = [lock EXCEPT ![Home[c]] = Nobody]
  /\ UNCHANGED <<quota, quotaOpen, writer, flight, ask, row, sent, crashes>>

-------------------------------------------------------------------------------
(* _forward: the provider gets the request, then answers or does not.          *)
Send(c) ==
  /\ Step(c, "forward", "await")
  /\ sent' = [sent EXCEPT ![Role[Home[c]]] = Plus(@, ask[c])]
  /\ UNCHANGED <<quota, quotaOpen, writer, broker, flight, lock, ask, row, crashes>>

Respond(c) ==
  /\ Step(c, "await", "count")
  /\ UNCHANGED <<quota, quotaOpen, writer, broker, flight, lock, ask, row, sent, crashes>>

(* No connection, the deadline, an oversized or rejected response.             *)
ForwardFails(c) ==
  /\ \/ Step(c, "forward", "fail")
     \/ Step(c, "await", "fail")
  /\ UNCHANGED <<quota, quotaOpen, writer, broker, flight, lock, ask, row, sent, crashes>>

(* Mutant: the finally clause also counts the calls that have returned.        *)
CountResponse_AlsoFailed(c) ==
  /\ lock[Home[c]] = Nobody
  /\ Step(c, "count", "fail")
  /\ broker' = [broker EXCEPT ![Home[c]].responses = @ + 1]
  /\ UNCHANGED <<quota, quotaOpen, writer, flight, lock, ask, row, sent, crashes>>

CountResponse(c) ==
  /\ lock[Home[c]] = Nobody
  /\ Step(c, "count", "release")
  /\ broker' = [broker EXCEPT ![Home[c]].responses = @ + 1]
  /\ UNCHANGED <<quota, quotaOpen, writer, flight, lock, ask, row, sent, crashes>>

CountFailure(c) ==
  /\ lock[Home[c]] = Nobody
  /\ Step(c, "fail", "release")
  /\ broker' = [broker EXCEPT ![Home[c]].failed = @ + 1]
  /\ UNCHANGED <<quota, quotaOpen, writer, flight, lock, ask, row, sent, crashes>>

(* Mutant: a failed call keeps the slot.                                       *)
ReleaseFlight_IfReturned(c) ==
  /\ Step(c, "release", "idle")
  /\ flight' = [flight EXCEPT ![Home[c]] =
                  IF broker[Home[c]].failed = 0 THEN Nobody ELSE @]
  /\ ask' = [ask EXCEPT ![c] = None]
  /\ UNCHANGED <<quota, quotaOpen, writer, broker, lock, row, sent, crashes>>

ReleaseFlight(c) ==
  /\ Step(c, "release", "idle")
  /\ flight' = [flight EXCEPT ![Home[c]] = Nobody]
  /\ ask' = [ask EXCEPT ![c] = None]
  /\ UNCHANGED <<quota, quotaOpen, writer, broker, lock, row, sent, crashes>>

-------------------------------------------------------------------------------
(* Mutant: revoke does not wait for _lock.                                     *)
Revoke_NoLock(b) ==
  /\ broker[b].live
  /\ broker' = [broker EXCEPT ![b].live = FALSE]
  /\ UNCHANGED <<quota, quotaOpen, writer, flight, lock, pc, ask, row, sent, crashes>>

(* revoke(), which close() calls first.                                        *)
Revoke(b) ==
  /\ broker[b].live /\ lock[b] = Nobody
  /\ broker' = [broker EXCEPT ![b].live = FALSE]
  /\ UNCHANGED <<quota, quotaOpen, writer, flight, lock, pc, ask, row, sent, crashes>>

QuotaExpires ==
  /\ quotaOpen /\ quotaOpen' = FALSE
  /\ UNCHANGED <<quota, writer, broker, flight, lock, pc, ask, row, sent, crashes>>

(* The broker's process is killed; SQLite drops an open transaction. The next  *)
(* one opens the same budget with a new broker and a full allowance.           *)
Crash(b) ==
  /\ crashes < MaxCrashes /\ crashes' = crashes + 1
  /\ broker' = [broker EXCEPT ![b] = Fresh(b)]
  /\ flight' = [flight EXCEPT ![b] = Nobody]
  /\ lock' = [lock EXCEPT ![b] = Nobody]
  /\ pc' = [c \in Callers |-> IF Home[c] = b THEN "idle" ELSE pc[c]]
  /\ ask' = [c \in Callers |-> IF Home[c] = b THEN None ELSE ask[c]]
  /\ row' = [c \in Callers |-> IF Home[c] = b THEN Nobody ELSE row[c]]
  /\ writer' = IF writer # Nobody /\ Home[writer] = b THEN Nobody ELSE writer
  /\ UNCHANGED <<quota, quotaOpen, sent>>

Reserve(c) == Begin(c) \/ BeginTimeout(c) \/ Commit(c)
Forward(c) == Send(c) \/ Respond(c) \/ ForwardFails(c)
Account(c) == CountResponse(c) \/ CountFailure(c) \/ ReleaseFlight(c)

(* A request on its way, the provider's answer or the timeout included.        *)
Work(c) == TakeFlight(c) \/ Enter(c) \/ Reserve(c) \/ Admit(c) \/ Forward(c)
           \/ Account(c)

Next == \/ \E c \in Callers : Request(c) \/ Work(c)
        \/ \E b \in Brokers : Revoke(b) \/ Crash(b)
        \/ QuotaExpires

Spec == Init /\ [][Next]_vars

(* chat never waits without a bound: the flight is refused, the write lock     *)
(* times out after five seconds, the provider after request_timeout.           *)
FairSpec == Spec /\ \A c \in Callers : WF_vars(Work(c))
-------------------------------------------------------------------------------
(* Properties.                                                                 *)

BrokerState == [live : BOOLEAN, left : OwnAmount, admitted : Nat, responses : Nat,
                failed : Nat]
QuotaRow == [left : Amount, used : [Roles -> Amount]]
Steps == {"idle", "flight", "enter", "begin", "commit", "admit", "forward", "await",
          "count", "fail", "release"}

(* TypeOK: rows, brokers and requests are of their kind; in particular no      *)
(* balance is ever negative, which _read would refuse for good.                *)
TypeOK ==
  /\ quota \in QuotaRow /\ quotaOpen \in BOOLEAN
  /\ writer \in Callers \cup {Nobody}
  /\ broker \in [Brokers -> BrokerState]
  /\ flight \in [Brokers -> Callers \cup {Nobody}]
  /\ lock \in [Brokers -> Callers \cup {Nobody}]
  /\ pc \in [Callers -> Steps] /\ ask \in [Callers -> Amount]
  /\ row \in [Callers -> QuotaRow \cup {Nobody}] /\ sent \in [Roles -> Amount]
  /\ crashes \in 0..MaxCrashes

(* CommitPrecedesAdmission: what the provider has received on behalf of a role *)
(* is covered by what the row has reserved for it, through crashes and new     *)
(* broker generations ("SQLite commit precedes admission; no refunds",         *)
(* eval/persistent_chat_budget.py).                                            *)
CommitPrecedesAdmission == \A r \in Roles : Fits(sent[r], quota.used[r])

(* The units of a resource the roles have reserved, one by one: as many as     *)
(* their reservations add up to.                                               *)
Units(k) == UNION {{r} \X (1..quota.used[r][k]) : r \in Roles}

(* QuotaConserved: what the roles have reserved and what is left add up to the *)
(* budget, so that _read never finds a "quota conservation mismatch" and the   *)
(* total sent stays within the budget.                                         *)
QuotaConserved == \A k \in Resources :
  Cardinality(Units(k)) + quota.left[k] = Quota[k]

InForward == {"forward", "await", "count", "fail"}

(* InflightTruthful: whenever status() can be computed, admitted_calls -       *)
(* responses - failed_calls is the number of requests the broker has out, and  *)
(* that is one at most.                                                        *)
InflightTruthful == \A b \in Brokers : lock[b] = Nobody =>
  LET out == {c \in Callers : Home[c] = b /\ pc[c] \in InForward} IN
  /\ broker[b].admitted - broker[b].responses - broker[b].failed = Cardinality(out)
  /\ Cardinality(out) <= 1

(* NoneAfterRevoke: a broker that is revoked admits nothing any more, also not *)
(* a request that had passed its checks ("Revocation prevents new calls",      *)
(* eval/credential_broker.py).                                                 *)
NoneAfterRevoke == [][\A b \in Brokers :
  broker'[b].admitted > broker[b].admitted => broker[b].live]_vars

(* FlightReleased: the one request slot of a broker comes free again, whether  *)
(* the request was refused, answered, failed or timed out.                     *)
FlightReleased == \A c \in Callers : flight[Home[c]] = c ~> flight[Home[c]] # c
================================================================================
