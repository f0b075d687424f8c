---------------------- MODULE ApprovalsRefinementProofs ----------------------
(* The approval engine implements ApprovalLifecycle, for any number of         *)
(* entities, requests, users, handlers and workers, and any number of faults.  *)
EXTENDS ApprovalsProofs

\* A step seen through the refinement mapping, one request or entity at a time.
StatusBecomes(r, st) ==
  \A q \in Req : req'[q].status = IF q = r THEN st ELSE req[q].status
SameStatus == \A q \in Req : req'[q].status = req[q].status
SameRequesters == \A q \in Req : req'[q].requester = req[q].requester
SameApprovers == \A q \in Req : req'[q].approver = req[q].approver
EffectOf(e) == \A d \in Entity : ent'[d].via # "none" <=> (d = e \/ ent[d].via # "none")
SameEffects == \A d \in Entity : ent'[d].via # "none" <=> ent[d].via # "none"

LifecycleStep == [Lifecycle!Next]_(Lifecycle!vars)

\* Nothing the lifecycle sees has changed.
LEMMA Stutters ==
  ASSUME SameStatus, SameRequesters, SameApprovers, SameEffects
  PROVE  LifecycleStep
BY DEF SameStatus, SameRequesters, SameApprovers, SameEffects, LifecycleStep, Lifecycle!vars

\* A new request of u.
LEMMA Opens ==
  ASSUME NEW r \in Req, NEW u \in User, req[r].status = "absent",
         StatusBecomes(r, "pending_approval"),
         \A q \in Req : req'[q].requester = IF q = r THEN u ELSE req[q].requester,
         SameApprovers, SameEffects
  PROVE  LifecycleStep
<1>1. Lifecycle!Open(r, u)
  BY DEF StatusBecomes, SameApprovers, SameEffects, Lifecycle!Open
<1> QED
  BY <1>1 DEF LifecycleStep, Lifecycle!Next

\* u decides r.
LEMMA Decides ==
  ASSUME NEW r \in Req, NEW u \in User, NEW d \in {"approved", "rejected"},
         req[r].status = "pending_approval", u # req[r].requester,
         StatusBecomes(r, d),
         \A q \in Req : req'[q].approver = IF q = r THEN u ELSE req[q].approver,
         SameRequesters, SameEffects
  PROVE  LifecycleStep
<1>1. Lifecycle!Decide(r, u, d)
  BY DEF StatusBecomes, SameRequesters, SameEffects, Lifecycle!Decide
<1> QED
  BY <1>1 DEF LifecycleStep, Lifecycle!Next

\* The requester takes r back.
LEMMA Withdraws ==
  ASSUME NEW r \in Req, req[r].status = "pending_approval",
         StatusBecomes(r, "cancelled"), SameRequesters, SameApprovers, SameEffects
  PROVE  LifecycleStep
<1>1. Lifecycle!Withdraw(r)
  BY DEF StatusBecomes, SameRequesters, SameApprovers, SameEffects, Lifecycle!Withdraw
<1> QED
  BY <1>1 DEF LifecycleStep, Lifecycle!Next

\* r is executed and its entity has taken effect.
LEMMA Executes ==
  ASSUME NEW r \in Req, Target[r] \in Entity,
         \/ req[r].status \in {"approved", "executed"}
         \/ Kind[Target[r]] = "payroll" /\ req[r].status # "absent",
         StatusBecomes(r, "executed"), SameRequesters, SameApprovers, EffectOf(Target[r])
  PROVE  LifecycleStep
<1>1. Lifecycle!Execute(r)
  BY DEF StatusBecomes, SameRequesters, SameApprovers, EffectOf, Lifecycle!Execute
<1> QED
  BY <1>1 DEF LifecycleStep, Lifecycle!Next

\* e takes effect without a request.
LEMMA TakesEffect ==
  ASSUME NEW e \in Entity, SameStatus, SameRequesters, SameApprovers, EffectOf(e)
  PROVE  LifecycleStep
<1>1. Lifecycle!TakeEffect(e)
  BY DEF SameStatus, SameRequesters, SameApprovers, EffectOf, Lifecycle!TakeEffect
<1> QED
  BY <1>1 DEF LifecycleStep, Lifecycle!Next

\* Writes of a request and its entity together: the three transactions.
LEMMA SubmitLifecycle ==
  ASSUME IndInv, NEW s \in Slot, NEW r \in Req, SubmitCreate(s, r)
  PROVE  LifecycleStep
<1>type. req \in [Req -> ReqRow] /\ ent \in [Entity -> EntRow] /\ SubmitCreate(s, r)
  BY DEF IndInv, TypeOK
<1>1. api[s].user \in User
  BY DEF SubmitCreate, IndInv, References
<1>2. req[r].status = "absent" /\ StatusBecomes(r, "pending_approval") /\ SameApprovers
  BY <1>type DEF SubmitCreate, StatusBecomes, SameApprovers, ReqRow
<1>3. \A q \in Req : req'[q].requester = IF q = r THEN api[s].user ELSE req[q].requester
  BY <1>type DEF SubmitCreate, ReqRow
<1>4. SameEffects
  BY <1>type DEF SubmitCreate, SameEffects, EntRow
<1> QED
  BY <1>1, <1>2, <1>3, <1>4, Opens

\* A callback executes, finds its work done, or is skipped.
LEMMA CallbackLifecycle ==
  ASSUME IndInv, NEW w \in Worker, CallbackCommit(w)
  PROVE  LifecycleStep
<1>type. req \in [Req -> ReqRow] /\ ent \in [Entity -> EntRow] /\ CallbackCommit(w)
  BY DEF IndInv, TypeOK
<1> DEFINE e == wk[w].ent
           r == wk[w].req
<1>1. r \in Req /\ e = Target[r] /\ e \in Entity
  BY TargetAssumption DEF CallbackCommit, IndInv, References
<1>2. req[r].status \in {"approved", "executed"}
  BY <1>1 DEF CallbackCommit, IndInv, JobsOnlyForApproved, InFlight, Approved
<1>3. ASSUME ent' = [ent EXCEPT ![e].status = Effective(Kind[e]), ![e].via = "callback"],
             req' = [req EXCEPT ![r].status = "executed", ![r].cb = "executed"]
      PROVE  LifecycleStep
  <2>1. StatusBecomes(r, "executed") /\ SameRequesters /\ SameApprovers
    BY <1>1, <1>3, <1>type DEF StatusBecomes, SameRequesters, SameApprovers, ReqRow
  <2>2. EffectOf(Target[r])
    BY <1>1, <1>3, <1>type DEF EffectOf, EntRow
  <2> QED
    BY <1>1, <1>2, <2>1, <2>2, Executes
<1>4. ASSUME AlreadyDone(Kind[e], wk[w].seen), UNCHANGED ent,
             req' = [req EXCEPT ![r].status = "executed", ![r].cb = "already_done"]
      PROVE  LifecycleStep
  <2>1. StatusBecomes(r, "executed") /\ SameRequesters /\ SameApprovers
    BY <1>1, <1>4, <1>type DEF StatusBecomes, SameRequesters, SameApprovers, ReqRow
  <2>2. ent[e].via # "none"
    BY <1>4 DEF CallbackCommit, IndInv, EffectsHappened
  <2>3. EffectOf(Target[r])
    BY <1>1, <1>4, <2>2 DEF EffectOf
  <2> QED
    BY <1>1, <1>2, <2>1, <2>3, Executes
<1>5. ASSUME UNCHANGED ent, req' = [req EXCEPT ![r].cb = "skipped"]
      PROVE  LifecycleStep
  <2>1. SameStatus /\ SameRequesters /\ SameApprovers /\ SameEffects
    BY <1>1, <1>5, <1>type DEF SameStatus, SameRequesters, SameApprovers, SameEffects, ReqRow
  <2> QED
    BY <2>1, Stutters
<1> QED
  BY <1>3, <1>4, <1>5, <1>type DEF CallbackCommit

\* A finalisation executes the linked request, or is direct.
LEMMA FinaliseLifecycle ==
  ASSUME IndInv, NEW s \in Slot, FinaliseCommit(s)
  PROVE  LifecycleStep
<1>type. req \in [Req -> ReqRow] /\ ent \in [Entity -> EntRow] /\ api \in [Slot -> Handler]
         /\ FinaliseCommit(s)
  BY DEF IndInv, TypeOK
<1> DEFINE e == api[s].ent
           r == api[s].req
<1>1. e \in Entity /\ Kind[e] = "payroll"
  BY DEF FinaliseCommit, IndInv, References
<1>2. EffectOf(e)
  BY <1>1, <1>type DEF FinaliseCommit, EffectOf, EntRow
<1>3. CASE r = None
  <2>1. SameStatus /\ SameRequesters /\ SameApprovers
    BY <1>3, <1>type DEF FinaliseCommit, SameStatus, SameRequesters, SameApprovers
  <2> QED
    BY <1>1, <1>2, <2>1, TakesEffect
<1>4. CASE r # None
  <2>1. r \in Req /\ Target[r] = e /\ req[r].status # "absent"
    BY <1>4, <1>type DEF FinaliseCommit, IndInv, References, LinksExist, Handler
  <2>2. StatusBecomes(r, "executed") /\ SameRequesters /\ SameApprovers
    BY <1>4, <2>1, <1>type
    DEF FinaliseCommit, StatusBecomes, SameRequesters, SameApprovers, ReqRow
  <2> QED
    BY <1>1, <1>2, <2>1, <2>2, Executes
<1> QED
  BY <1>3, <1>4

\* Writes to requests only.
LEMMA RequestOnly ==
  ASSUME IndInv, Next, UNCHANGED ent, WritesRequest
  PROVE  LifecycleStep
<1>type. req \in [Req -> ReqRow] /\ UNCHANGED ent
  BY DEF IndInv, TypeOK
<1>1. ASSUME NEW r \in Req, NEW u \in User, CanDecide(r, u),
             NEW d \in {"approved", "rejected"},
             \A q \in Req : /\ req'[q].status = IF q = r THEN d ELSE req[q].status
                            /\ req'[q].approver = IF q = r THEN u ELSE req[q].approver
                            /\ req'[q].requester = req[q].requester
      PROVE  LifecycleStep
  BY <1>1, <1>type, Decides DEF CanDecide, StatusBecomes, SameRequesters, SameEffects
<1>2. ASSUME NEW s \in Slot, NEW r \in Req, NEW u \in User, Approve(s, r, u)
      PROVE  LifecycleStep
  <2>1. \A q \in Req : /\ req'[q].status = IF q = r THEN "approved" ELSE req[q].status
                       /\ req'[q].approver = IF q = r THEN u ELSE req[q].approver
                       /\ req'[q].requester = req[q].requester
    BY <1>2, <1>type DEF Approve, ReqRow
  <2> QED
    BY <2>1, <1>1, <1>2 DEF Approve
<1>3. ASSUME NEW r \in Req, NEW u \in User, Reject(r, u)
      PROVE  LifecycleStep
  <2>1. \A q \in Req : /\ req'[q].status = IF q = r THEN "rejected" ELSE req[q].status
                       /\ req'[q].approver = IF q = r THEN u ELSE req[q].approver
                       /\ req'[q].requester = req[q].requester
    BY <1>3, <1>type DEF Reject, ReqRow
  <2> QED
    BY <2>1, <1>1, <1>3 DEF Reject
<1>4. ASSUME NEW r \in Req, NEW u, CanCancel(r, u), req' = [req EXCEPT ![r].status = "cancelled"]
      PROVE  LifecycleStep
  BY <1>4, <1>type, Withdraws
  DEF CanCancel, StatusBecomes, SameRequesters, SameApprovers, SameEffects, ReqRow
<1>5. ASSUME NEW r \in Req, NEW u \in User, Cancel(r, u)
      PROVE  LifecycleStep
  BY <1>4, <1>5 DEF Cancel
<1>6. ASSUME UNCHANGED req
      PROVE  LifecycleStep
  BY <1>6, <1>type, Stutters DEF SameStatus, SameRequesters, SameApprovers, SameEffects
<1>7. ASSUME NEW s \in Slot, CancelLinkedRequest(s)
      PROVE  LifecycleStep
  <2>1. api[s].req \in Req
    BY <1>7 DEF CancelLinkedRequest, IndInv, References
  <2> QED
    BY <2>1, <1>4, <1>6, <1>7 DEF CancelLinkedRequest
<1>8. ASSUME \A q \in Req : /\ req'[q].status = req[q].status
                            /\ req'[q].approver = req[q].approver
                            /\ req'[q].requester = req[q].requester
      PROVE  LifecycleStep
  BY <1>8, <1>type, Stutters DEF SameStatus, SameRequesters, SameApprovers, SameEffects
<1>9. ASSUME NEW s \in Slot, MarkCallbackFailure(s)
      PROVE  LifecycleStep
  BY <1>9, <1>8, <1>type DEF MarkCallbackFailure, ReqRow
<1>10. ASSUME NEW r \in Req, Age(r)
      PROVE  LifecycleStep
  BY <1>10, <1>8, <1>type DEF Age, ReqRow
<1>11. ASSUME NEW s \in Slot, NEW r \in Req, RetryReset(s, r)
      PROVE  LifecycleStep
  BY <1>11, <1>8, <1>type DEF RetryReset, ReqRow
<1>12. ASSUME NEW s \in Slot, RetryMarkFailed(s)
      PROVE  LifecycleStep
  BY <1>12, <1>8, <1>type DEF RetryMarkFailed, ReqRow
<1>13. ASSUME NEW r \in Req, ReconExhaust(r)
      PROVE  LifecycleStep
  BY <1>13, <1>8, <1>type DEF ReconExhaust, ReconWrite, ReqRow
<1>14. ASSUME NEW r \in Req, ReconUpdate(r)
      PROVE  LifecycleStep
  BY <1>14, <1>8, <1>type DEF ReconUpdate, ReconWrite, ReqRow
<1>15. ASSUME NEW r \in Req, ReconMarkFailed(r)
      PROVE  LifecycleStep
  BY <1>15, <1>8, <1>type DEF ReconMarkFailed, ReconWrite, ReqRow
<1>16. ASSUME NEW w \in Worker, CallbackCommit(w)
      PROVE  LifecycleStep
  BY <1>16, CallbackLifecycle
<1>17. ASSUME NEW s \in Slot, NEW r \in Req, SubmitCreate(s, r)
      PROVE  LifecycleStep
  BY <1>17, SubmitLifecycle
<1>18. ASSUME NEW s \in Slot, FinaliseCommit(s)
      PROVE  LifecycleStep
  BY <1>18, FinaliseLifecycle
<1> QED
  BY <1>2, <1>3, <1>5, <1>7, <1>9, <1>10, <1>11, <1>12, <1>13, <1>14, <1>15, <1>16, <1>17, <1>18
  DEF WritesRequest

\* Writes of an entity: alone, or in one of the three transactions.
LEMMA EntityLifecycle ==
  ASSUME IndInv, WritesEntity
  PROVE  LifecycleStep
<1>type. ent \in [Entity -> EntRow]
  BY DEF IndInv, TypeOK
<1>same. UNCHANGED req => SameStatus /\ SameRequesters /\ SameApprovers
  BY DEF SameStatus, SameRequesters, SameApprovers
<1>1. ASSUME UNCHANGED req, \A d \in Entity : ent'[d].via = ent[d].via
      PROVE  LifecycleStep
  BY <1>1, <1>same, Stutters DEF SameEffects
<1>2. ASSUME NEW s \in Slot, TakeEffect(s)
      PROVE  LifecycleStep
  <2>1. api[s].ent \in Entity
    BY <1>2 DEF TakeEffect, IndInv, References
  <2>2. EffectOf(api[s].ent)
    BY <1>2, <2>1, <1>type DEF TakeEffect, EffectOf, EntRow
  <2> QED
    BY <2>1, <2>2, <1>2, <1>same, TakesEffect DEF TakeEffect
<1>3. ASSUME NEW w \in Worker, PublishCommit(w)
      PROVE  LifecycleStep
  <2>1. wk[w].ent \in Entity
    BY <1>3 DEF PublishCommit, IndInv, References
  <2>2. CASE UNCHANGED ent
    BY <2>2, <1>3, <1>1 DEF PublishCommit
  <2>3. CASE ent' = [ent EXCEPT ![wk[w].ent].status = "published", ![wk[w].ent].via = "direct",
                                ![wk[w].ent].notified = TRUE]
    <3>1. EffectOf(wk[w].ent)
      BY <2>1, <2>3, <1>type DEF EffectOf, EntRow
    <3> QED
      BY <2>1, <3>1, <1>3, <1>same, TakesEffect DEF PublishCommit
  <2> QED
    BY <2>2, <2>3, <1>3 DEF PublishCommit
<1>4. ASSUME NEW s \in Slot, Fanout(s)
      PROVE  LifecycleStep
  BY <1>4, <1>1, <1>type DEF Fanout, EntRow
<1>5. ASSUME NEW s \in Slot, Schedule(s)
      PROVE  LifecycleStep
  BY <1>5, <1>1, <1>type DEF Schedule, EntRow
<1>6. ASSUME NEW s \in Slot, WithdrawWrite(s)
      PROVE  LifecycleStep
  BY <1>6, <1>1, <1>type DEF WithdrawWrite, EntRow
<1>7. ASSUME NEW e \in Entity, Settle(e)
      PROVE  LifecycleStep
  BY <1>7, <1>1, <1>type DEF Settle, EntRow
<1>8. ASSUME NEW s \in Slot, NEW r \in Req, SubmitCreate(s, r)
      PROVE  LifecycleStep
  BY <1>8, SubmitLifecycle
<1>9. ASSUME NEW s \in Slot, FinaliseCommit(s)
      PROVE  LifecycleStep
  BY <1>9, FinaliseLifecycle
<1>10. ASSUME NEW w \in Worker, CallbackCommit(w)
      PROVE  LifecycleStep
  BY <1>10, CallbackLifecycle
<1> QED
  BY <1>2, <1>3, <1>4, <1>5, <1>6, <1>7, <1>8, <1>9, <1>10 DEF WritesEntity

\* The empty system is the empty lifecycle.
LEMMA LifecycleInit ==
  ASSUME Init
  PROVE  Lifecycle!Init
BY DEF Init, Lifecycle!Init

\* Every step of the engine is a step of the lifecycle or changes nothing of it.
LEMMA LifecycleNext ==
  ASSUME IndInv, [Next]_vars
  PROVE  LifecycleStep
<1>1. CASE UNCHANGED vars
  BY <1>1, Stutters DEF vars, SameStatus, SameRequesters, SameApprovers, SameEffects
<1>2. CASE Next
  <2>1. CASE UNCHANGED <<req, ent>>
    BY <2>1, Stutters DEF SameStatus, SameRequesters, SameApprovers, SameEffects
  <2>2. CASE WritesRequest /\ UNCHANGED ent
    BY <1>2, <2>2, RequestOnly
  <2>3. CASE WritesEntity
    BY <1>2, <2>3, EntityLifecycle
  <2> QED
    BY <1>2, <2>1, <2>2, <2>3, RequestWriters, EntityWriters
<1> QED
  BY <1>1, <1>2

\* The engine keeps the promise of the lifecycle: whatever happens in handlers,
\* workers, reconciliation, Redis and at crashes, a request is decided at most
\* once and executed only with its entity.
THEOREM EngineImplementsLifecycle == Spec => ImplementsLifecycle
<1>1. Init => Lifecycle!Init
  BY LifecycleInit
<1>2. IndInv /\ [Next]_vars => [Lifecycle!Next]_(Lifecycle!vars)
  BY LifecycleNext DEF LifecycleStep
<1> QED
  BY <1>1, <1>2, InvariantHolds, PTL DEF Spec, ImplementsLifecycle, Lifecycle!Spec

=============================================================================
