------------------------- MODULE ApprovalsRefinement -------------------------
(* The approval engine implements ApprovalLifecycle.  Only payroll requests    *)
(* are overridable: finaliseAtomic executes whatever request a run is linked   *)
(* to, decided or not.                                                         *)
EXTENDS Approvals

Lifecycle == INSTANCE ApprovalLifecycle WITH
  Overridable <- {r \in Req : Kind[Target[r]] = "payroll"},
  status <- [r \in Req |-> req[r].status],
  requester <- [r \in Req |-> req[r].requester],
  approver <- [r \in Req |-> req[r].approver],
  done <- {e \in Entity : ent[e].via # "none"}

\* Every step of handlers, workers, reconciliation and faults is a step of the
\* promised lifecycle or changes nothing of it (approve, reject, cancel and the
\* three callback processors together).
ImplementsLifecycle == Lifecycle!Spec
=============================================================================
