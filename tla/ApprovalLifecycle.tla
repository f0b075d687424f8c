-------------------------- MODULE ApprovalLifecycle --------------------------
(* What the approval engine promises, without handlers, jobs or crashes: a    *)
(* request is decided once, by somebody other than its requester or withdrawn  *)
(* by the requester, and its entity has taken effect when it is executed.      *)
EXTENDS Naturals

CONSTANTS Entity, Req, Target, User, None,
          Overridable   \* requests of entities that may be finalised without the decision

VARIABLES status, requester, approver,
          done          \* entities that have taken effect

vars == <<status, requester, approver, done>>

Init ==
  /\ status = [r \in Req |-> "absent"]
  /\ requester = [r \in Req |-> None]
  /\ approver = [r \in Req |-> None]
  /\ done = {}

Open(r, u) ==
  /\ status[r] = "absent"
  /\ status' = [status EXCEPT ![r] = "pending_approval"]
  /\ requester' = [requester EXCEPT ![r] = u]
  /\ UNCHANGED <<approver, done>>

Decide(r, u, decision) ==
  /\ status[r] = "pending_approval" /\ u # requester[r]
  /\ status' = [status EXCEPT ![r] = decision]
  /\ approver' = [approver EXCEPT ![r] = u]
  /\ UNCHANGED <<requester, done>>

Withdraw(r) ==
  /\ status[r] = "pending_approval"
  /\ status' = [status EXCEPT ![r] = "cancelled"]
  /\ UNCHANGED <<requester, approver, done>>

Execute(r) ==
  /\ status[r] \in {"approved", "executed"} \/ (r \in Overridable /\ status[r] # "absent")
  /\ status' = [status EXCEPT ![r] = "executed"]
  /\ done' = done \cup {Target[r]}
  /\ UNCHANGED <<requester, approver>>

\* The entity takes effect without a request: direct authority or no workflow.
TakeEffect(e) ==
  /\ done' = done \cup {e}
  /\ UNCHANGED <<status, requester, approver>>

Next ==
  \/ \E r \in Req, u \in User : \/ Open(r, u)
                                \/ \E d \in {"approved", "rejected"} : Decide(r, u, d)
  \/ \E r \in Req : Withdraw(r) \/ Execute(r)
  \/ \E e \in Entity : TakeEffect(e)

Spec == Init /\ [][Next]_vars
=============================================================================
