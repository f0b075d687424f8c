--------------------------- MODULE ApprovalsProofs ---------------------------
(* Theorems about Approvals for any number of entities, requests, users,      *)
(* handlers and workers, and for any bounds.                                   *)
EXTENDS ApprovalsRefinement, TLAPS

USE DEF EntStatus, ReqStatus, CbStatus, rows, redis, settings, bounds

\* A row written back with another value of its type leaves a table in shape.
LEMMA RowWritten ==
  ASSUME NEW K, NEW R, NEW f \in [K -> R], NEW k \in K, NEW row \in R
  PROVE  [f EXCEPT ![k] = row] \in [K -> R]
OBVIOUS

\* The columns of a request, a handler and an entity, written one at a time.
LEMMA ReqWritten ==
  ASSUME NEW f \in [Req -> ReqRow], NEW r \in Req
  PROVE  /\ \A v \in ReqStatus : [f EXCEPT ![r].status = v] \in [Req -> ReqRow]
         /\ \A v \in CbStatus : [f EXCEPT ![r].cb = v] \in [Req -> ReqRow]
         /\ \A v \in User \cup {None} : [f EXCEPT ![r].approver = v] \in [Req -> ReqRow]
<1>1. ASSUME NEW row \in ReqRow, NEW v \in ReqStatus PROVE [row EXCEPT !.status = v] \in ReqRow
  BY DEF ReqRow
<1>2. ASSUME NEW row \in ReqRow, NEW v \in CbStatus PROVE [row EXCEPT !.cb = v] \in ReqRow
  BY DEF ReqRow
<1>3. ASSUME NEW row \in ReqRow, NEW v \in User \cup {None}
      PROVE  [row EXCEPT !.approver = v] \in ReqRow
  BY DEF ReqRow
<1>4. f[r] \in ReqRow
  OBVIOUS
<1> HIDE DEF ReqStatus, CbStatus
<1> QED
  BY <1>1, <1>2, <1>3, <1>4

LEMMA HandlerWritten ==
  ASSUME NEW h \in Handler
  PROVE  /\ \A v \in {"finalise", "cancel_request", "withdraw", "enqueue", "mark_failed",
                      "retry", "retry_add", "retry_failed", "fanout", "delay", "create", "direct"} :
              [h EXCEPT !.pc = v] \in Handler
         /\ \A r \in Req \cup {None} : [h EXCEPT !.req = r] \in Handler
         /\ \A T \in SUBSET Req : [h EXCEPT !.todo = T] \in Handler
BY DEF Handler

LEMMA EntWritten ==
  ASSUME NEW f \in [Entity -> EntRow], NEW e \in Entity
  PROVE  /\ \A v \in EntStatus : [f EXCEPT ![e].status = v] \in [Entity -> EntRow]
         /\ \A v \in {"none", "direct", "callback"} : [f EXCEPT ![e].via = v] \in [Entity -> EntRow]
<1>1. ASSUME NEW row \in EntRow, NEW v \in EntStatus PROVE [row EXCEPT !.status = v] \in EntRow
  BY DEF EntRow
<1>2. ASSUME NEW row \in EntRow, NEW v \in {"none", "direct", "callback"}
      PROVE  [row EXCEPT !.via = v] \in EntRow
  BY DEF EntRow
<1>3. f[e] \in EntRow
  OBVIOUS
<1> HIDE DEF EntStatus
<1> QED
  BY <1>1, <1>2, <1>3

\* Every step keeps the types: the attempts written by reconciliation come from
\* its snapshot, which only holds requests below MAX_CALLBACK_ATTEMPTS.
LEMMA TypeStep ==
  ASSUME IndInv, Next
  PROVE  TypeOK'
<1>type. TypeOK
  BY DEF IndInv
<1>ref. References
  BY DEF IndInv
<1>api. api \in [Slot -> Handler]
  BY <1>type DEF TypeOK
<1>req. req \in [Req -> ReqRow]
  BY <1>type DEF TypeOK
<1>ent. ent \in [Entity -> EntRow]
  BY <1>type DEF TypeOK
<1>queue. queue \in [Req -> 0..MaxJobs]
  BY <1>type DEF TypeOK
<1>delayed. delayed \subseteq Entity
  BY <1>type DEF TypeOK
<1>wk. wk \in [Worker -> Processing]
  BY <1>type DEF TypeOK
<1>recon. recon \in Reconciling
  BY <1>type DEF TypeOK
<1>bounds. /\ gate \in BOOLEAN /\ moduleOn \in BOOLEAN
           /\ faults \in 0..MaxFaults /\ retries \in 0..MaxRetries /\ toggles \in 0..MaxToggles
  BY <1>type DEF TypeOK
<1>1. ASSUME NEW s \in Slot, NEW e \in Entity, NEW u \in User, SubmitRead(s, e, u)
      PROVE  TypeOK'
  <2>1. api' \in [Slot -> Handler]
    BY <1>1, <1>api DEF SubmitRead, Goto, Idle, Handling, Handler
  <2> QED
    BY <1>1, <1>type, <2>1 DEF SubmitRead, TypeOK
<1>2. ASSUME NEW s \in Slot, SubmitCheck(s)
      PROVE  TypeOK'
  <2>1. api' \in [Slot -> Handler]
    BY <1>2, <1>api DEF SubmitCheck, Goto, Idle, Handling, Handler
  <2> QED
    BY <1>2, <1>type, <2>1 DEF SubmitCheck, TypeOK
<1>3. ASSUME NEW s \in Slot, NEW r \in Req, SubmitCreate(s, r)
      PROVE  TypeOK'
  <2>1. api' \in [Slot -> Handler]
    BY <1>3, <1>api DEF SubmitCreate, Goto, Idle, Handling, Handler
  <2>2. req' \in [Req -> ReqRow]
    <3> DEFINE u == api[s].user
    <3> DEFINE f == [req EXCEPT ![r].status = "pending_approval"]
    <3>1. u \in User \cup {None}
      BY <1>api DEF Handler
    <3>2. f \in [Req -> ReqRow]
      BY <1>req DEF ReqRow
    <3>3. req' = [f EXCEPT ![r].requester = u]
      BY <1>3 DEF SubmitCreate
    <3> HIDE DEF f, u
    <3> QED
      BY <3>1, <3>2, <3>3 DEF ReqRow
  <2>3. ent' \in [Entity -> EntRow]
    <3> DEFINE e == api[s].ent
    <3> DEFINE f == [ent EXCEPT ![e].status = "pending_approval"]
    <3>1. e \in Entity
      BY <1>3, <1>ref DEF SubmitCreate, References
    <3>2. ent' = [f EXCEPT ![e].link = r]
      BY <1>3 DEF SubmitCreate
    <3> HIDE DEF e
    <3>3. f \in [Entity -> EntRow]
      BY <1>ent, <3>1 DEF EntRow
    <3> HIDE DEF f
    <3> QED
      BY <3>1, <3>2, <3>3 DEF EntRow
  <2> QED
    BY <1>3, <1>type, <2>1, <2>2, <2>3 DEF SubmitCreate, TypeOK
<1>4. ASSUME NEW s \in Slot, TakeEffect(s)
      PROVE  TypeOK'
  <2>1. api' \in [Slot -> Handler]
    <3>1. Idle \in Handler
      BY DEF Idle, Handling, Handler
    <3>2. api[s] \in Handler
      BY <1>api
    <3>3. [api[s] EXCEPT !.pc = "fanout"] \in Handler /\ [api[s] EXCEPT !.pc = "delay"] \in Handler
      BY <3>2, HandlerWritten
    <3>4. \E h \in Handler : api' = [api EXCEPT ![s] = h]
      BY <1>4, <3>1, <3>3 DEF TakeEffect, Goto
    <3> QED
      BY <1>api, <3>4, RowWritten
  <2>2. ent' \in [Entity -> EntRow]
    BY <1>4, <1>ent, <1>api, <1>ref, KindAssumption
    DEF TakeEffect, EntRow, Handler, Effective, References
  <2> QED
    BY <1>4, <1>type, <2>1, <2>2 DEF TakeEffect, TypeOK
<1>5. ASSUME NEW s \in Slot, Fanout(s)
      PROVE  TypeOK'
  <2>1. api' \in [Slot -> Handler]
    BY <1>5, <1>api DEF Fanout, Goto, Idle, Handling, Handler
  <2>2. ent' \in [Entity -> EntRow]
    <3> DEFINE e == api[s].ent
    <3>1. e \in Entity
      BY <1>5, <1>ref DEF Fanout, References
    <3>2. ent' = [ent EXCEPT ![e].notified = TRUE]
      BY <1>5 DEF Fanout
    <3> HIDE DEF e
    <3> QED
      BY <1>ent, <3>1, <3>2 DEF EntRow
  <2> QED
    BY <1>5, <1>type, <2>1, <2>2 DEF Fanout, TypeOK
<1>6. ASSUME NEW s \in Slot, Schedule(s)
      PROVE  TypeOK'
  <2>1. api' \in [Slot -> Handler]
    BY <1>6, <1>api DEF Schedule, Goto, Idle, Handling, Handler
  <2>2. ent' \in [Entity -> EntRow]
    BY <1>6, <1>ent, <1>api, <1>ref, KindAssumption DEF Schedule, EntRow, Handler, References
  <2> QED
    BY <1>6, <1>type, <2>1, <2>2 DEF Schedule, TypeOK
<1>7. ASSUME NEW s \in Slot, ScheduleJob(s)
      PROVE  TypeOK'
  <2>1. api' \in [Slot -> Handler]
    BY <1>7, <1>api DEF ScheduleJob, Goto, Idle, Handling, Handler
  <2>2. delayed' \subseteq Entity
    BY <1>7, <1>delayed, <1>api, <1>ref DEF ScheduleJob, Handler, References
  <2> QED
    BY <1>7, <1>type, <2>1, <2>2 DEF ScheduleJob, TypeOK
<1>8. ASSUME NEW s \in Slot, NEW e \in Entity, NEW u \in User, RefinaliseRead(s, e, u)
      PROVE  TypeOK'
  <2>1. api' \in [Slot -> Handler]
    BY <1>8, <1>api DEF RefinaliseRead, Goto, Idle, Handling, Handler
  <2> QED
    BY <1>8, <1>type, <2>1 DEF RefinaliseRead, TypeOK
<1>9. ASSUME NEW s \in Slot, FinaliseRead(s)
      PROVE  TypeOK'
  <2>1. api' \in [Slot -> Handler]
    <3>1. /\ ent[api[s].ent].status \in EntStatus
          /\ ent[api[s].ent].link \in Req \cup {None}
      BY <1>9, <1>ent, <1>ref DEF FinaliseRead, References, EntRow
    <3> DEFINE st == ent[api[s].ent].status
               l == ent[api[s].ent].link
               h == [[api[s] EXCEPT !.pc = "finalise"] EXCEPT !.seen = st]
    <3>2. h \in Handler
      BY <3>1, <1>api DEF Handler
    <3>3. Idle \in Handler
      BY DEF Idle, Handling, Handler
    <3>4. api' = [api EXCEPT ![s] = [h EXCEPT !.req = l]] \/ api' = [api EXCEPT ![s] = Idle]
      BY <1>9 DEF FinaliseRead, Goto
    <3> HIDE DEF h, l
    <3>5. [h EXCEPT !.req = l] \in Handler
      BY <3>1, <3>2 DEF Handler, l
    <3> QED
      BY <1>api, <3>3, <3>4, <3>5
  <2> QED
    BY <1>9, <1>type, <2>1 DEF FinaliseRead, TypeOK
<1>10. ASSUME NEW s \in Slot, FinaliseCommit(s)
      PROVE  TypeOK'
  <2>1. api' \in [Slot -> Handler]
    BY <1>10, <1>api DEF FinaliseCommit, Goto, Idle, Handling, Handler
  <2>2. req' \in [Req -> ReqRow]
    BY <1>10, <1>req, <1>api, <1>ref DEF FinaliseCommit, ReqRow, Handler, References
  <2>3. ent' \in [Entity -> EntRow]
    BY <1>10, <1>ent, <1>api, <1>ref DEF FinaliseCommit, EntRow, Handler, References
  <2> QED
    BY <1>10, <1>type, <2>1, <2>2, <2>3 DEF FinaliseCommit, TypeOK
<1>11. ASSUME NEW s \in Slot, FinaliseConflict(s)
      PROVE  TypeOK'
  <2>1. api' \in [Slot -> Handler]
    BY <1>11, <1>api DEF FinaliseConflict, Goto, Idle, Handling, Handler
  <2> QED
    BY <1>11, <1>type, <2>1 DEF FinaliseConflict, TypeOK
<1>12. ASSUME NEW s \in Slot, NEW e \in Entity, NEW u \in User, WithdrawRead(s, e, u)
      PROVE  TypeOK'
  <2>1. api' \in [Slot -> Handler]
    BY <1>12, <1>api, <1>ent
    DEF WithdrawRead, Goto, Idle, Handling, Handler, EntRow, LinkedRequest
  <2> QED
    BY <1>12, <1>type, <2>1 DEF WithdrawRead, TypeOK
<1>13. ASSUME NEW s \in Slot, CancelLinkedRequest(s)
      PROVE  TypeOK'
  <2>1. api' \in [Slot -> Handler]
    BY <1>13, <1>api DEF CancelLinkedRequest, Goto, Idle, Handling, Handler
  <2>2. req' \in [Req -> ReqRow]
    BY <1>13, <1>req, <1>api, <1>ref DEF CancelLinkedRequest, ReqRow, Handler, References
  <2> QED
    BY <1>13, <1>type, <2>1, <2>2 DEF CancelLinkedRequest, TypeOK
<1>14. ASSUME NEW s \in Slot, WithdrawWrite(s)
      PROVE  TypeOK'
  <2>1. api' \in [Slot -> Handler]
    BY <1>14, <1>api DEF WithdrawWrite, Goto, Idle, Handling, Handler
  <2>2. ent' \in [Entity -> EntRow]
    BY <1>14, <1>ent, <1>api, <1>ref, KindAssumption
    DEF WithdrawWrite, EntRow, Handler, Withdrawn, References
  <2> QED
    BY <1>14, <1>type, <2>1, <2>2 DEF WithdrawWrite, TypeOK
<1>15. ASSUME NEW e \in Entity, Settle(e)
      PROVE  TypeOK'
  <2>1. ent' \in [Entity -> EntRow]
    BY <1>15, <1>ent, KindAssumption DEF Settle, EntRow
  <2> QED
    BY <1>15, <1>type, <2>1 DEF Settle, TypeOK
<1>16. ASSUME NEW s \in Slot, NEW r \in Req, NEW u \in User, Approve(s, r, u)
      PROVE  TypeOK'
  <2>1. api' \in [Slot -> Handler]
    BY <1>16, <1>api DEF Approve, Goto, Idle, Handling, Handler
  <2>2. req' \in [Req -> ReqRow]
    <3> DEFINE f == [req EXCEPT ![r].status = "approved"]
               h == [f EXCEPT ![r].approver = u]
               g == [h EXCEPT ![r].cb = "pending"]
    <3>3. req' = [g EXCEPT ![r].attempts = 0]
      BY <1>16 DEF Approve
    <3>1. f \in [Req -> ReqRow]
      BY <1>req, ReqWritten
    <3> HIDE DEF f
    <3>4. h \in [Req -> ReqRow]
      BY <3>1, ReqWritten
    <3> HIDE DEF h
    <3>2. g \in [Req -> ReqRow]
      BY <3>4, ReqWritten
    <3> HIDE DEF g
    <3> QED
      BY <3>2, <3>3, AttemptsAssumption DEF ReqRow
  <2> QED
    BY <1>16, <1>type, <2>1, <2>2 DEF Approve, TypeOK
<1>17. ASSUME NEW s \in Slot, ApproveEnqueue(s)
      PROVE  TypeOK'
  <2>1. api' \in [Slot -> Handler]
    BY <1>17, <1>api DEF ApproveEnqueue, Goto, Idle, Handling, Handler
  <2>2. queue' \in [Req -> 0..MaxJobs]
    BY <1>17, <1>queue, <1>api, <1>ref, BoundAssumption
    DEF ApproveEnqueue, Enqueue, Handler, References
  <2> QED
    BY <1>17, <1>type, <2>1, <2>2 DEF ApproveEnqueue, TypeOK
<1>18. ASSUME NEW s \in Slot, ApproveEnqueueFails(s)
      PROVE  TypeOK'
  <2>1. api' \in [Slot -> Handler]
    BY <1>18, <1>api DEF ApproveEnqueueFails, Goto, Idle, Handling, Handler
  <2>2. queue' \in [Req -> 0..MaxJobs]
    BY <1>18, <1>queue, <1>api, <1>ref, BoundAssumption
    DEF ApproveEnqueueFails, Enqueue, Handler, References
  <2>3. faults' \in 0..MaxFaults
    BY <1>18, <1>bounds, BoundAssumption DEF ApproveEnqueueFails, Fault
  <2> QED
    BY <1>18, <1>type, <2>1, <2>2, <2>3 DEF ApproveEnqueueFails, TypeOK
<1>19. ASSUME NEW s \in Slot, MarkCallbackFailure(s)
      PROVE  TypeOK'
  <2>1. api' \in [Slot -> Handler]
    BY <1>19, <1>api DEF MarkCallbackFailure, Goto, Idle, Handling, Handler
  <2>2. req' \in [Req -> ReqRow]
    BY <1>19, <1>req, <1>api, <1>ref DEF MarkCallbackFailure, ReqRow, Handler, References
  <2> QED
    BY <1>19, <1>type, <2>1, <2>2 DEF MarkCallbackFailure, TypeOK
<1>20. ASSUME NEW r \in Req, NEW u \in User, Reject(r, u)
      PROVE  TypeOK'
  <2>1. req' \in [Req -> ReqRow]
    <3> DEFINE f == [req EXCEPT ![r].status = "rejected"]
    <3>1. req' = [f EXCEPT ![r].approver = u]
      BY <1>20 DEF Reject
    <3>2. f \in [Req -> ReqRow]
      BY <1>req, ReqWritten
    <3> HIDE DEF f
    <3> QED
      BY <3>1, <3>2, ReqWritten
  <2> QED
    BY <1>20, <1>type, <2>1 DEF Reject, TypeOK
<1>21. ASSUME NEW r \in Req, NEW u \in User, Cancel(r, u)
      PROVE  TypeOK'
  <2>1. req' \in [Req -> ReqRow]
    BY <1>21, <1>req DEF Cancel, ReqRow
  <2> QED
    BY <1>21, <1>type, <2>1 DEF Cancel, TypeOK
<1>22. ASSUME NEW r \in Req, Age(r)
      PROVE  TypeOK'
  <2>1. req' \in [Req -> ReqRow]
    BY <1>22, <1>req DEF Age, ReqRow
  <2> QED
    BY <1>22, <1>type, <2>1 DEF Age, TypeOK
<1>23. ASSUME NEW s \in Slot, NEW r \in Req, RetryCallback(s, r)
      PROVE  TypeOK'
  <2>1. api' \in [Slot -> Handler]
    BY <1>23, <1>api DEF RetryCallback, Goto, Idle, Handling, Handler, StartRetry, Retrying
  <2>2. retries' \in 0..MaxRetries
    BY <1>23, <1>bounds, BoundAssumption DEF RetryCallback, StartRetry
  <2> QED
    BY <1>23, <1>type, <2>1, <2>2 DEF RetryCallback, StartRetry, TypeOK
<1>24. ASSUME NEW s \in Slot, NEW f, BulkRetryCallbacks(s, f)
      PROVE  TypeOK'
  <2>1. api' \in [Slot -> Handler]
    BY <1>24, <1>api DEF BulkRetryCallbacks, Goto, Idle, Handling, Handler, StartRetry, Retrying
  <2>2. retries' \in 0..MaxRetries
    BY <1>24, <1>bounds, BoundAssumption DEF BulkRetryCallbacks, StartRetry
  <2> QED
    BY <1>24, <1>type, <2>1, <2>2 DEF BulkRetryCallbacks, StartRetry, TypeOK
<1>25. ASSUME NEW s \in Slot, NEW r \in Req, RetryReset(s, r)
      PROVE  TypeOK'
  <2>1. api' \in [Slot -> Handler]
    <3> DEFINE h == [api[s] EXCEPT !.pc = "retry_add"]
               g == [h EXCEPT !.req = r]
               T == api[s].todo \ {r}
    <3>1. api' = [api EXCEPT ![s] = [g EXCEPT !.todo = T]]
      BY <1>25 DEF RetryReset, Goto
    <3>2. api[s] \in Handler /\ T \in SUBSET Req
      BY <1>api DEF Handler
    <3> HIDE DEF T
    <3>3. h \in Handler
      BY <3>2, HandlerWritten
    <3> HIDE DEF h
    <3>4. g \in Handler
      BY <3>3, HandlerWritten
    <3> HIDE DEF g
    <3>5. [g EXCEPT !.todo = T] \in Handler
      BY <3>2, <3>4, HandlerWritten
    <3> QED
      BY <1>api, <3>1, <3>5, RowWritten
  <2>2. req' \in [Req -> ReqRow]
    <3> DEFINE f == [req EXCEPT ![r].cb = "pending"]
    <3>1. f \in [Req -> ReqRow]
      BY <1>req DEF ReqRow
    <3>2. req' = [f EXCEPT ![r].attempts = 0]
      BY <1>25 DEF RetryReset
    <3> HIDE DEF f
    <3> QED
      BY <3>1, <3>2, AttemptsAssumption DEF ReqRow
  <2> QED
    BY <1>25, <1>type, <2>1, <2>2 DEF RetryReset, TypeOK
<1>26. ASSUME NEW s \in Slot, RetryEnqueue(s)
      PROVE  TypeOK'
  <2>1. api' \in [Slot -> Handler]
    BY <1>26, <1>api DEF RetryEnqueue, Goto, Idle, Handling, Handler, NextRetry, Retrying
  <2>2. queue' \in [Req -> 0..MaxJobs]
    BY <1>26, <1>queue, <1>api, <1>ref, BoundAssumption
    DEF RetryEnqueue, Enqueue, Handler, References
  <2> QED
    BY <1>26, <1>type, <2>1, <2>2 DEF RetryEnqueue, TypeOK
<1>27. ASSUME NEW s \in Slot, RetryEnqueueFails(s)
      PROVE  TypeOK'
  <2>1. api' \in [Slot -> Handler]
    BY <1>27, <1>api DEF RetryEnqueueFails, Goto, Idle, Handling, Handler
  <2>2. queue' \in [Req -> 0..MaxJobs]
    BY <1>27, <1>queue, <1>api, <1>ref, BoundAssumption
    DEF RetryEnqueueFails, Enqueue, Handler, References
  <2>3. faults' \in 0..MaxFaults
    BY <1>27, <1>bounds, BoundAssumption DEF RetryEnqueueFails, Fault
  <2> QED
    BY <1>27, <1>type, <2>1, <2>2, <2>3 DEF RetryEnqueueFails, TypeOK
<1>28. ASSUME NEW s \in Slot, RetryMarkFailed(s)
      PROVE  TypeOK'
  <2>1. api' \in [Slot -> Handler]
    BY <1>28, <1>api DEF RetryMarkFailed, Goto, Idle, Handling, Handler, NextRetry, Retrying
  <2>2. req' \in [Req -> ReqRow]
    BY <1>28, <1>req, <1>api, <1>ref DEF RetryMarkFailed, ReqRow, Handler, References
  <2> QED
    BY <1>28, <1>type, <2>1, <2>2 DEF RetryMarkFailed, TypeOK
<1>29. ASSUME ReconScan
      PROVE  TypeOK'
  <2>1. recon' \in Reconciling
    BY <1>29, <1>recon, <1>req, AttemptsAssumption
    DEF ReconScan, ReconIdle, Reconciling, Stuck, ReqRow
  <2> QED
    BY <1>29, <1>type, <2>1 DEF ReconScan, TypeOK
<1>30. ASSUME NEW r \in Req, ReconExhaust(r)
      PROVE  TypeOK'
  <2>1. recon' \in Reconciling
    BY <1>30, <1>recon, AttemptsAssumption
    DEF ReconExhaust, ReconIdle, Reconciling, ReconWrite, ReconNext
  <2>2. req' \in [Req -> ReqRow]
    <3> DEFINE f == [req EXCEPT ![r].cb = "failed"]
    <3>1. f \in [Req -> ReqRow]
      BY <1>req DEF ReqRow
    <3>2. req' = [f EXCEPT ![r].attempts = recon.snap[r] + 1]
      BY <1>30 DEF ReconExhaust, ReconWrite
    <3>3. recon.snap[r] + 1 \in 0..MaxAttempts
      BY <1>recon, AttemptsAssumption DEF Reconciling
    <3> HIDE DEF f
    <3> QED
      BY <3>1, <3>2, <3>3 DEF ReqRow
  <2> QED
    BY <1>30, <1>type, <2>1, <2>2 DEF ReconExhaust, ReconWrite, TypeOK
<1>31. ASSUME NEW r \in Req, ReconEnqueue(r)
      PROVE  TypeOK'
  <2>1. recon' \in Reconciling
    BY <1>31, <1>recon DEF ReconEnqueue, ReconIdle, Reconciling
  <2>2. queue' \in [Req -> 0..MaxJobs]
    BY <1>31, <1>queue, BoundAssumption DEF ReconEnqueue, Enqueue
  <2> QED
    BY <1>31, <1>type, <2>1, <2>2 DEF ReconEnqueue, TypeOK
<1>32. ASSUME NEW r \in Req, ReconEnqueueFails(r)
      PROVE  TypeOK'
  <2>1. recon' \in Reconciling
    BY <1>32, <1>recon DEF ReconEnqueueFails, ReconIdle, Reconciling
  <2>2. queue' \in [Req -> 0..MaxJobs]
    BY <1>32, <1>queue, BoundAssumption DEF ReconEnqueueFails, Enqueue
  <2>3. faults' \in 0..MaxFaults
    BY <1>32, <1>bounds, BoundAssumption DEF ReconEnqueueFails, Fault
  <2> QED
    BY <1>32, <1>type, <2>1, <2>2, <2>3 DEF ReconEnqueueFails, TypeOK
<1>33. ASSUME NEW r \in Req, ReconUpdate(r)
      PROVE  TypeOK'
  <2>1. recon' \in Reconciling
    BY <1>33, <1>recon, AttemptsAssumption
    DEF ReconUpdate, ReconIdle, Reconciling, ReconWrite, ReconNext
  <2>2. req' \in [Req -> ReqRow]
    BY <1>33, <1>req, <1>recon, AttemptsAssumption
    DEF ReconUpdate, ReqRow, ReconWrite, Reconciling
  <2> QED
    BY <1>33, <1>type, <2>1, <2>2 DEF ReconUpdate, ReconWrite, TypeOK
<1>34. ASSUME NEW r \in Req, ReconMarkFailed(r)
      PROVE  TypeOK'
  <2>1. recon' \in Reconciling
    BY <1>34, <1>recon, AttemptsAssumption
    DEF ReconMarkFailed, ReconIdle, Reconciling, ReconWrite, ReconNext
  <2>2. req' \in [Req -> ReqRow]
    BY <1>34, <1>req, <1>recon, AttemptsAssumption
    DEF ReconMarkFailed, ReqRow, ReconWrite, Reconciling
  <2> QED
    BY <1>34, <1>type, <2>1, <2>2 DEF ReconMarkFailed, ReconWrite, TypeOK
<1>35. ASSUME ReconCrash
      PROVE  TypeOK'
  <2>1. recon' \in Reconciling
    BY <1>35, <1>recon, AttemptsAssumption DEF ReconCrash, ReconIdle, Reconciling
  <2>2. faults' \in 0..MaxFaults
    BY <1>35, <1>bounds, BoundAssumption DEF ReconCrash, Fault
  <2> QED
    BY <1>35, <1>type, <2>1, <2>2 DEF ReconCrash, TypeOK
<1>36. ASSUME NEW r \in Req, CallbackSkipped(r)
      PROVE  TypeOK'
  <2>1. queue' \in [Req -> 0..MaxJobs]
    BY <1>36, <1>queue, BoundAssumption DEF CallbackSkipped, Enqueue, Dequeue
  <2> QED
    BY <1>36, <1>type, <2>1 DEF CallbackSkipped, TypeOK
<1>37. ASSUME NEW w \in Worker, NEW r \in Req, CallbackRead(w, r)
      PROVE  TypeOK'
  <2>1. wk' \in [Worker -> Processing]
    BY <1>37, <1>wk, <1>ent, TargetAssumption DEF CallbackRead, Take, Free, Processing, EntRow
  <2>2. queue' \in [Req -> 0..MaxJobs]
    BY <1>37, <1>queue, BoundAssumption DEF CallbackRead, Enqueue, Dequeue
  <2> QED
    BY <1>37, <1>type, <2>1, <2>2 DEF CallbackRead, TypeOK
<1>38. ASSUME NEW w \in Worker, CallbackCommit(w)
      PROVE  TypeOK'
  <2>1. wk' \in [Worker -> Processing]
    BY <1>38, <1>wk DEF CallbackCommit, Take, Free, Processing
  <2>2. req' \in [Req -> ReqRow]
    <3> DEFINE r == wk[w].req
               f == [req EXCEPT ![r].status = "executed"]
    <3>1. r \in Req
      BY <1>38, <1>ref DEF CallbackCommit, References
    <3>2. \/ \E v \in {"executed", "already_done"} : req' = [f EXCEPT ![r].cb = v]
          \/ req' = [req EXCEPT ![r].cb = "skipped"]
      BY <1>38 DEF CallbackCommit
    <3> HIDE DEF r
    <3>3. f \in [Req -> ReqRow]
      BY <1>req, <3>1, ReqWritten
    <3> HIDE DEF f
    <3>4. \A v \in {"executed", "already_done"} : [f EXCEPT ![r].cb = v] \in [Req -> ReqRow]
      BY <3>1, <3>3, ReqWritten
    <3>5. [req EXCEPT ![r].cb = "skipped"] \in [Req -> ReqRow]
      BY <1>req, <3>1, ReqWritten
    <3> QED
      BY <3>2, <3>4, <3>5
  <2>3. ent' \in [Entity -> EntRow]
    <3> DEFINE e == wk[w].ent
               f == [ent EXCEPT ![e].status = Effective(Kind[e])]
    <3>1. e \in Entity
      BY <1>38, <1>ref, TargetAssumption DEF CallbackCommit, References
    <3>2. Effective(Kind[e]) \in EntStatus
      BY <3>1, KindAssumption DEF Effective
    <3>3. ent' = [f EXCEPT ![e].via = "callback"] \/ ent' = ent
      BY <1>38 DEF CallbackCommit
    <3> HIDE DEF e
    <3>4. f \in [Entity -> EntRow]
      BY <1>ent, <3>1, <3>2, EntWritten
    <3> HIDE DEF f
    <3>5. [f EXCEPT ![e].via = "callback"] \in [Entity -> EntRow]
      BY <3>1, <3>4, EntWritten
    <3> QED
      BY <1>ent, <3>3, <3>5
  <2> QED
    BY <1>38, <1>type, <2>1, <2>2, <2>3 DEF CallbackCommit, TypeOK
<1>39. ASSUME NEW w \in Worker, NEW e \in Entity, PublishRead(w, e)
      PROVE  TypeOK'
  <2>1. wk' \in [Worker -> Processing]
    BY <1>39, <1>wk, <1>ent DEF PublishRead, Take, Free, Processing, EntRow
  <2>2. delayed' \subseteq Entity
    BY <1>39, <1>delayed DEF PublishRead
  <2> QED
    BY <1>39, <1>type, <2>1, <2>2 DEF PublishRead, TypeOK
<1>40. ASSUME NEW w \in Worker, PublishCommit(w)
      PROVE  TypeOK'
  <2>1. wk' \in [Worker -> Processing]
    BY <1>40, <1>wk DEF PublishCommit, Take, Free, Processing
  <2>2. ent' \in [Entity -> EntRow]
    BY <1>40, <1>ent, <1>wk, <1>ref DEF PublishCommit, EntRow, Processing, References
  <2> QED
    BY <1>40, <1>type, <2>1, <2>2 DEF PublishCommit, TypeOK
<1>41. ASSUME NEW w \in Worker, WorkerFails(w)
      PROVE  TypeOK'
  <2>1. wk' \in [Worker -> Processing]
    BY <1>41, <1>wk DEF WorkerFails, Take, Free, Processing
  <2>2. queue' \in [Req -> 0..MaxJobs]
    BY <1>41, <1>queue, <1>wk, <1>ref, BoundAssumption
    DEF WorkerFails, Enqueue, Redeliver, Processing, References
  <2>3. delayed' \subseteq Entity
    BY <1>41, <1>delayed, <1>wk, TargetAssumption, <1>ref
    DEF WorkerFails, Redeliver, Processing, References
  <2>4. faults' \in 0..MaxFaults
    BY <1>41, <1>bounds, BoundAssumption DEF WorkerFails, Fault
  <2> QED
    BY <1>41, <1>type, <2>1, <2>2, <2>3, <2>4 DEF WorkerFails, TypeOK
<1>42. ASSUME NEW w \in Worker, CallbackConflict(w)
      PROVE  TypeOK'
  <2>1. wk' \in [Worker -> Processing]
    BY <1>42, <1>wk DEF CallbackConflict, Take, Free, Processing
  <2>2. queue' \in [Req -> 0..MaxJobs]
    BY <1>42, <1>queue, <1>wk, <1>ref, BoundAssumption
    DEF CallbackConflict, Enqueue, Redeliver, Processing, References
  <2>3. delayed' \subseteq Entity
    BY <1>42, <1>delayed, <1>wk, TargetAssumption, <1>ref
    DEF CallbackConflict, Redeliver, Processing, References
  <2> QED
    BY <1>42, <1>type, <2>1, <2>2, <2>3 DEF CallbackConflict, TypeOK
<1>43. ASSUME NEW w \in Worker, JobStalls(w)
      PROVE  TypeOK'
  <2>1. queue' \in [Req -> 0..MaxJobs]
    BY <1>43, <1>queue, <1>wk, <1>ref, BoundAssumption
    DEF JobStalls, Enqueue, Processing, References
  <2>2. faults' \in 0..MaxFaults
    BY <1>43, <1>bounds, BoundAssumption DEF JobStalls, Fault
  <2> QED
    BY <1>43, <1>type, <2>1, <2>2 DEF JobStalls, TypeOK
<1>44. ASSUME NEW s \in Slot, ApiCrash(s)
      PROVE  TypeOK'
  <2>1. api' \in [Slot -> Handler]
    BY <1>44, <1>api DEF ApiCrash, Goto, Idle, Handling, Handler
  <2>2. faults' \in 0..MaxFaults
    BY <1>44, <1>bounds, BoundAssumption DEF ApiCrash, Fault
  <2> QED
    BY <1>44, <1>type, <2>1, <2>2 DEF ApiCrash, TypeOK
<1>45. ASSUME Toggle
      PROVE  TypeOK'
  <2>1. gate' \in BOOLEAN /\ moduleOn' \in BOOLEAN
    BY <1>45, <1>bounds DEF Toggle
  <2>2. toggles' \in 0..MaxToggles
    BY <1>45, <1>bounds, BoundAssumption DEF Toggle
  <2> QED
    BY <1>45, <1>type, <2>1, <2>2 DEF Toggle, TypeOK
<1> QED
  BY <1>1, <1>2, <1>3, <1>4, <1>5, <1>6, <1>7, <1>8, <1>9, <1>10, <1>11, <1>12, <1>13, <1>14,
     <1>15, <1>16, <1>17, <1>18, <1>19, <1>20, <1>21, <1>22, <1>23, <1>24, <1>25, <1>26,
     <1>27, <1>28, <1>29, <1>30, <1>31, <1>32, <1>33, <1>34, <1>35, <1>36, <1>37, <1>38,
     <1>39, <1>40, <1>41, <1>42, <1>43, <1>44, <1>45
  DEF Next, UserStep, ApiStep, ReconStep, WorkerStep, DeliverCallback, DeliverPublish,
      FaultStep

\* Every step keeps what handlers, workers and reconciliation refer to.
LEMMA ReferencesStep ==
  ASSUME IndInv, Next
  PROVE  References'
<1>type. /\ api \in [Slot -> Handler] /\ wk \in [Worker -> Processing]
         /\ recon \in Reconciling /\ ent \in [Entity -> EntRow]
  BY DEF IndInv, TypeOK
<1>ref. References
  BY DEF IndInv
<1>1. ASSUME NEW s \in Slot, NEW e \in Entity, NEW u \in User, SubmitRead(s, e, u)
      PROVE  References'
  BY <1>1, <1>type, <1>ref, NoneAssumption, KindAssumption, TargetAssumption
  DEF SubmitRead, Goto, Idle, Handling, References, Handler, Processing, Reconciling, EntRow
<1>2. ASSUME NEW s \in Slot, SubmitCheck(s)
      PROVE  References'
  BY <1>2, <1>type, <1>ref, NoneAssumption, KindAssumption, TargetAssumption
  DEF SubmitCheck, Goto, Idle, Handling, References, Handler, Processing, Reconciling, EntRow
<1>3. ASSUME NEW s \in Slot, NEW r \in Req, SubmitCreate(s, r)
      PROVE  References'
  BY <1>3, <1>type, <1>ref, NoneAssumption, KindAssumption, TargetAssumption
  DEF SubmitCreate, Goto, Idle, Handling, References, Handler, Processing, Reconciling, EntRow
<1>4. ASSUME NEW s \in Slot, TakeEffect(s)
      PROVE  References'
  BY <1>4, <1>type, <1>ref, NoneAssumption, KindAssumption, TargetAssumption
  DEF TakeEffect, Goto, Idle, Handling, References, Handler, Processing, Reconciling, EntRow
<1>5. ASSUME NEW s \in Slot, Fanout(s)
      PROVE  References'
  BY <1>5, <1>type, <1>ref, NoneAssumption, KindAssumption, TargetAssumption
  DEF Fanout, Goto, Idle, Handling, References, Handler, Processing, Reconciling, EntRow
<1>6. ASSUME NEW s \in Slot, Schedule(s)
      PROVE  References'
  BY <1>6, <1>type, <1>ref, NoneAssumption, KindAssumption, TargetAssumption
  DEF Schedule, Goto, Idle, Handling, References, Handler, Processing, Reconciling, EntRow
<1>7. ASSUME NEW s \in Slot, ScheduleJob(s)
      PROVE  References'
  BY <1>7, <1>type, <1>ref, NoneAssumption, KindAssumption, TargetAssumption
  DEF ScheduleJob, Goto, Idle, Handling, References, Handler, Processing, Reconciling, EntRow
<1>8. ASSUME NEW s \in Slot, NEW e \in Entity, NEW u \in User, RefinaliseRead(s, e, u)
      PROVE  References'
  BY <1>8, <1>type, <1>ref, NoneAssumption, KindAssumption, TargetAssumption
  DEF RefinaliseRead, Goto, Idle, Handling, References, Handler, Processing, Reconciling,
      EntRow
<1>9. ASSUME NEW s \in Slot, FinaliseRead(s)
      PROVE  References'
  <2> DEFINE e == api[s].ent
             h == [api[s] EXCEPT !.pc = "finalise", !.seen = ent[e].status, !.req = ent[e].link]
  <2>1. /\ Kind[e] = "payroll" /\ e \in Entity
        /\ ent[e].link # None => Target[ent[e].link] = e
    BY <1>9, <1>ref DEF FinaliseRead, References
  <2>2. h.pc = "finalise" /\ h.ent = e /\ h.req = ent[e].link
    BY <1>9, <1>type DEF Handler
  <2>3. Idle.pc = "idle"
    BY DEF Idle, Handling
  <2>4. api' = [api EXCEPT ![s] = h] \/ api' = [api EXCEPT ![s] = Idle]
    BY <1>9 DEF FinaliseRead, Goto
  <2>5. UNCHANGED <<ent, wk, recon>>
    BY <1>9 DEF FinaliseRead
  <2> HIDE DEF h
  <2>6. \/ /\ api'[s].pc = "finalise" /\ api'[s].ent \in Entity
           /\ Kind[api'[s].ent] = "payroll"
           /\ api'[s].req # None => Target[api'[s].req] = api'[s].ent
        \/ api'[s].pc = "idle"
    BY <1>type, <2>1, <2>2, <2>3, <2>4
  <2>7. \A s2 \in Slot \ {s} : api'[s2] = api[s2]
    BY <1>type, <2>4
  <2> HIDE DEF e
  <2>8. \A t \in Slot :
          /\ api'[t].pc \in {"submit", "create", "direct", "fanout", "delay", "finalise",
                             "cancel_request", "withdraw"} => api'[t].ent \in Entity
          /\ api'[t].pc \in {"cancel_request", "enqueue", "mark_failed", "retry_add",
                             "retry_failed"} => api'[t].req \in Req
          /\ api'[t].pc \in {"submit", "create"} => api'[t].user \in User
          /\ api'[t].pc = "finalise" =>
               /\ Kind[api'[t].ent] = "payroll"
               /\ api'[t].req # None => Target[api'[t].req] = api'[t].ent
    <3>1. CASE \E t \in {s} : api'[t].pc = "idle"
      BY <1>ref, <2>7, <3>1 DEF References
    <3>2. CASE api'[s].pc = "finalise"
      BY <1>ref, <2>6, <2>7, <3>2 DEF References
    <3> QED
      BY <2>6, <3>1, <3>2
  <2> QED
    BY <1>ref, <2>5, <2>8 DEF References
<1>10. ASSUME NEW s \in Slot, FinaliseCommit(s)
      PROVE  References'
  BY <1>10, <1>type, <1>ref, NoneAssumption, KindAssumption, TargetAssumption
  DEF FinaliseCommit, Goto, Idle, Handling, References, Handler, Processing, Reconciling,
      EntRow
<1>11. ASSUME NEW s \in Slot, FinaliseConflict(s)
      PROVE  References'
  BY <1>11, <1>type, <1>ref, NoneAssumption, KindAssumption, TargetAssumption
  DEF FinaliseConflict, Goto, Idle, Handling, References, Handler, Processing, Reconciling,
      EntRow
<1>12. ASSUME NEW s \in Slot, NEW e \in Entity, NEW u \in User, WithdrawRead(s, e, u)
      PROVE  References'
  BY <1>12, <1>type, <1>ref, NoneAssumption, KindAssumption, TargetAssumption
  DEF WithdrawRead, LinkedRequest, Goto, Idle, Handling, References, Handler, Processing,
      Reconciling, EntRow
<1>13. ASSUME NEW s \in Slot, CancelLinkedRequest(s)
      PROVE  References'
  <2>1. \/ api' = [api EXCEPT ![s] = Idle]
        \/ api' = [api EXCEPT ![s] = [api[s] EXCEPT !.pc = "withdraw"]]
    BY <1>13 DEF CancelLinkedRequest, Goto
  <2>2. api[s].ent \in Entity
    BY <1>13, <1>ref DEF CancelLinkedRequest, References
  <2>3. UNCHANGED <<ent, wk, recon>>
    BY <1>13 DEF CancelLinkedRequest
  <2> QED
    BY <2>1, <2>2, <2>3, <1>type, <1>ref DEF References, Idle, Handling, Handler
<1>14. ASSUME NEW s \in Slot, WithdrawWrite(s)
      PROVE  References'
  BY <1>14, <1>type, <1>ref, NoneAssumption, KindAssumption, TargetAssumption
  DEF WithdrawWrite, Goto, Idle, Handling, References, Handler, Processing, Reconciling,
      EntRow
<1>15. ASSUME NEW e \in Entity, Settle(e)
      PROVE  References'
  BY <1>15, <1>type, <1>ref, NoneAssumption, KindAssumption, TargetAssumption
  DEF Settle, References, Handler, Processing, Reconciling, EntRow
<1>16. ASSUME NEW s \in Slot, NEW r \in Req, NEW u \in User, Approve(s, r, u)
      PROVE  References'
  BY <1>16, <1>type, <1>ref, NoneAssumption, KindAssumption, TargetAssumption
  DEF Approve, CanDecide, Goto, Idle, Handling, References, Handler, Processing, Reconciling,
      EntRow
<1>17. ASSUME NEW s \in Slot, ApproveEnqueue(s)
      PROVE  References'
  BY <1>17, <1>type, <1>ref, NoneAssumption, KindAssumption, TargetAssumption
  DEF ApproveEnqueue, Enqueue, Goto, Idle, Handling, References, Handler, Processing,
      Reconciling, EntRow
<1>18. ASSUME NEW s \in Slot, ApproveEnqueueFails(s)
      PROVE  References'
  BY <1>18, <1>type, <1>ref, NoneAssumption, KindAssumption, TargetAssumption
  DEF ApproveEnqueueFails, Enqueue, Goto, Idle, Handling, References, Handler, Processing,
      Reconciling, EntRow
<1>19. ASSUME NEW s \in Slot, MarkCallbackFailure(s)
      PROVE  References'
  BY <1>19, <1>type, <1>ref, NoneAssumption, KindAssumption, TargetAssumption
  DEF MarkCallbackFailure, Goto, Idle, Handling, References, Handler, Processing, Reconciling,
      EntRow
<1>20. ASSUME NEW s \in Slot, NEW r \in Req, RetryCallback(s, r)
      PROVE  References'
  BY <1>20, <1>type, <1>ref, NoneAssumption, KindAssumption, TargetAssumption
  DEF RetryCallback, StartRetry, Retrying, Goto, Idle, Handling, References, Handler,
      Processing, Reconciling, EntRow
<1>21. ASSUME NEW s \in Slot, NEW f, BulkRetryCallbacks(s, f)
      PROVE  References'
  BY <1>21, <1>type, <1>ref, NoneAssumption, KindAssumption, TargetAssumption
  DEF BulkRetryCallbacks, StartRetry, Retrying, Goto, Idle, Handling, References, Handler,
      Processing, Reconciling, EntRow
<1>22. ASSUME NEW s \in Slot, NEW r \in Req, RetryReset(s, r)
      PROVE  References'
  BY <1>22, <1>type, <1>ref, NoneAssumption, KindAssumption, TargetAssumption
  DEF RetryReset, Goto, Idle, Handling, References, Handler, Processing, Reconciling, EntRow
<1>23. ASSUME NEW s \in Slot, RetryEnqueue(s)
      PROVE  References'
  BY <1>23, <1>type, <1>ref, NoneAssumption, KindAssumption, TargetAssumption
  DEF RetryEnqueue, NextRetry, Retrying, Enqueue, Goto, Idle, Handling, References, Handler,
      Processing, Reconciling, EntRow
<1>24. ASSUME NEW s \in Slot, RetryEnqueueFails(s)
      PROVE  References'
  BY <1>24, <1>type, <1>ref, NoneAssumption, KindAssumption, TargetAssumption
  DEF RetryEnqueueFails, Enqueue, Goto, Idle, Handling, References, Handler, Processing,
      Reconciling, EntRow
<1>25. ASSUME NEW s \in Slot, RetryMarkFailed(s)
      PROVE  References'
  BY <1>25, <1>type, <1>ref, NoneAssumption, KindAssumption, TargetAssumption
  DEF RetryMarkFailed, NextRetry, Retrying, Goto, Idle, Handling, References, Handler,
      Processing, Reconciling, EntRow
<1>26. ASSUME ReconScan
      PROVE  References'
  BY <1>26, <1>type, <1>ref, NoneAssumption, KindAssumption, TargetAssumption
  DEF ReconScan, Stuck, References, Handler, Processing, Reconciling, EntRow
<1>27. ASSUME NEW r \in Req, ReconExhaust(r)
      PROVE  References'
  BY <1>27, <1>type, <1>ref, NoneAssumption, KindAssumption, TargetAssumption
  DEF ReconExhaust, ReconWrite, ReconNext, ReconIdle, References, Handler, Processing,
      Reconciling, EntRow
<1>28. ASSUME NEW r \in Req, ReconEnqueue(r)
      PROVE  References'
  BY <1>28, <1>type, <1>ref, NoneAssumption, KindAssumption, TargetAssumption
  DEF ReconEnqueue, Enqueue, References, Handler, Processing, Reconciling, EntRow
<1>29. ASSUME NEW r \in Req, ReconEnqueueFails(r)
      PROVE  References'
  BY <1>29, <1>type, <1>ref, NoneAssumption, KindAssumption, TargetAssumption
  DEF ReconEnqueueFails, Enqueue, References, Handler, Processing, Reconciling, EntRow
<1>30. ASSUME NEW r \in Req, ReconUpdate(r)
      PROVE  References'
  BY <1>30, <1>type, <1>ref, NoneAssumption, KindAssumption, TargetAssumption
  DEF ReconUpdate, ReconWrite, ReconNext, ReconIdle, References, Handler, Processing,
      Reconciling, EntRow
<1>31. ASSUME NEW r \in Req, ReconMarkFailed(r)
      PROVE  References'
  BY <1>31, <1>type, <1>ref, NoneAssumption, KindAssumption, TargetAssumption
  DEF ReconMarkFailed, ReconWrite, ReconNext, ReconIdle, References, Handler, Processing,
      Reconciling, EntRow
<1>32. ASSUME ReconCrash
      PROVE  References'
  BY <1>32, <1>type, <1>ref, NoneAssumption, KindAssumption, TargetAssumption
  DEF ReconCrash, ReconIdle, References, Handler, Processing, Reconciling, EntRow
<1>33. ASSUME NEW w \in Worker, NEW r \in Req, CallbackRead(w, r)
      PROVE  References'
  BY <1>33, <1>type, <1>ref, NoneAssumption, KindAssumption, TargetAssumption
  DEF CallbackRead, Dequeue, Take, References, Handler, Processing, Reconciling, EntRow
<1>34. ASSUME NEW w \in Worker, CallbackCommit(w)
      PROVE  References'
  <2>1. \A e \in Entity : ent'[e].link = ent[e].link
    BY <1>34, <1>type DEF CallbackCommit, EntRow
  <2> QED
    BY <2>1, <1>34, <1>type, <1>ref DEF CallbackCommit, Free, Take, References, Processing
<1>35. ASSUME NEW w \in Worker, NEW e \in Entity, PublishRead(w, e)
      PROVE  References'
  BY <1>35, <1>type, <1>ref, NoneAssumption, KindAssumption, TargetAssumption
  DEF PublishRead, Take, References, Handler, Processing, Reconciling, EntRow
<1>36. ASSUME NEW w \in Worker, PublishCommit(w)
      PROVE  References'
  <2>1. \A e \in Entity : ent'[e].link = ent[e].link
    BY <1>36, <1>type DEF PublishCommit, EntRow
  <2> QED
    BY <2>1, <1>36, <1>type, <1>ref DEF PublishCommit, Free, Take, References, Processing
<1>37. ASSUME NEW w \in Worker, WorkerFails(w)
      PROVE  References'
  BY <1>37, <1>type, <1>ref, NoneAssumption, KindAssumption, TargetAssumption
  DEF WorkerFails, Free, Redeliver, Enqueue, Take, References, Handler, Processing,
      Reconciling, EntRow
<1>38. ASSUME NEW w \in Worker, CallbackConflict(w)
      PROVE  References'
  BY <1>38, <1>type, <1>ref, NoneAssumption, KindAssumption, TargetAssumption
  DEF CallbackConflict, Free, Redeliver, Enqueue, Take, References, Handler, Processing,
      Reconciling, EntRow
<1>39. ASSUME NEW s \in Slot, ApiCrash(s)
      PROVE  References'
  BY <1>39, <1>type, <1>ref, NoneAssumption, KindAssumption, TargetAssumption
  DEF ApiCrash, Goto, Idle, Handling, References, Handler, Processing, Reconciling, EntRow
<1>40. ASSUME UNCHANGED <<api, wk, recon, ent>>
      PROVE  References'
  BY <1>40, <1>type, <1>ref, NoneAssumption, KindAssumption, TargetAssumption
  DEF References, Handler, Processing, Reconciling, EntRow
<1> QED
  BY <1>1, <1>2, <1>3, <1>4, <1>5, <1>6, <1>7, <1>8, <1>9, <1>10, <1>11, <1>12, <1>13, <1>14,
     <1>15, <1>16, <1>17, <1>18, <1>19, <1>20, <1>21, <1>22, <1>23, <1>24, <1>25, <1>26,
     <1>27, <1>28, <1>29, <1>30, <1>31, <1>32, <1>33, <1>34, <1>35, <1>36, <1>37, <1>38,
     <1>39, <1>40
  DEF Next, UserStep, ApiStep, ReconStep, WorkerStep, DeliverCallback, DeliverPublish,
      FaultStep, Reject, Cancel, Age, CallbackSkipped, JobStalls, Toggle

\* The steps that write approval_requests, and that no other does.
WritesRequest ==
  \/ \E s \in Slot, r \in Req : SubmitCreate(s, r) \/ RetryReset(s, r)
  \/ \E s \in Slot :
          FinaliseCommit(s) \/ CancelLinkedRequest(s) \/ MarkCallbackFailure(s)
       \/ RetryMarkFailed(s)
  \/ \E s \in Slot, r \in Req, u \in User : Approve(s, r, u)
  \/ \E r \in Req, u \in User : Reject(r, u) \/ Cancel(r, u)
  \/ \E r \in Req : Age(r) \/ ReconExhaust(r) \/ ReconUpdate(r) \/ ReconMarkFailed(r)
  \/ \E w \in Worker : CallbackCommit(w)

LEMMA RequestWriters ==
  ASSUME Next
  PROVE  WritesRequest \/ UNCHANGED req
<1>1. ASSUME UserStep
      PROVE  WritesRequest \/ UNCHANGED req
  BY <1>1
  DEF UserStep, WritesRequest, SubmitRead, RefinaliseRead, WithdrawRead, RetryCallback,
      StartRetry, BulkRetryCallbacks, Settle, Toggle
<1>2. ASSUME NEW s \in Slot, ApiStep(s)
      PROVE  WritesRequest \/ UNCHANGED req
  BY <1>2
  DEF ApiStep, WritesRequest, SubmitCheck, TakeEffect, Fanout, Schedule, ScheduleJob,
      FinaliseRead, FinaliseConflict, WithdrawWrite, ApproveEnqueue, RetryEnqueue
<1>3. ASSUME ReconStep
      PROVE  WritesRequest \/ UNCHANGED req
  BY <1>3 DEF ReconStep, WritesRequest, ReconScan, ReconEnqueue
<1>4. ASSUME NEW w \in Worker, WorkerStep(w)
      PROVE  WritesRequest \/ UNCHANGED req
  BY <1>4 DEF WorkerStep, WritesRequest, PublishCommit, CallbackConflict
<1>5. ASSUME NEW r \in Req, DeliverCallback(r)
      PROVE  WritesRequest \/ UNCHANGED req
  BY <1>5 DEF DeliverCallback, WritesRequest, CallbackSkipped, CallbackRead
<1>6. ASSUME NEW e \in Entity, DeliverPublish(e)
      PROVE  WritesRequest \/ UNCHANGED req
  BY <1>6 DEF DeliverPublish, WritesRequest, PublishRead
<1>7. ASSUME FaultStep
      PROVE  WritesRequest \/ UNCHANGED req
  BY <1>7
  DEF FaultStep, WritesRequest, ApproveEnqueueFails, RetryEnqueueFails, ApiCrash,
      ReconEnqueueFails, ReconCrash, WorkerFails, JobStalls
<1> QED
  BY <1>1, <1>2, <1>3, <1>4, <1>5, <1>6, <1>7 DEF Next, WritesRequest

\* The steps that write the rows of entities, and that no other does.
WritesEntity ==
  \/ \E s \in Slot, r \in Req : SubmitCreate(s, r)
  \/ \E s \in Slot :
          TakeEffect(s) \/ Fanout(s) \/ Schedule(s) \/ FinaliseCommit(s) \/ WithdrawWrite(s)
  \/ \E e \in Entity : Settle(e)
  \/ \E w \in Worker : CallbackCommit(w) \/ PublishCommit(w)

LEMMA EntityWriters ==
  ASSUME Next
  PROVE  WritesEntity \/ UNCHANGED ent
<1>1. ASSUME UserStep
      PROVE  WritesEntity \/ UNCHANGED ent
  BY <1>1
  DEF UserStep, WritesEntity, SubmitRead, RefinaliseRead, WithdrawRead, Approve, Reject,
      Cancel, RetryCallback, StartRetry, BulkRetryCallbacks, Toggle
<1>2. ASSUME NEW s \in Slot, ApiStep(s)
      PROVE  WritesEntity \/ UNCHANGED ent
  BY <1>2
  DEF ApiStep, WritesEntity, SubmitCheck, ScheduleJob, FinaliseRead, FinaliseConflict,
      CancelLinkedRequest, ApproveEnqueue, MarkCallbackFailure, RetryEnqueue, RetryMarkFailed,
      RetryReset
<1>3. ASSUME ReconStep
      PROVE  WritesEntity \/ UNCHANGED ent
  BY <1>3
  DEF ReconStep, WritesEntity, ReconScan, ReconExhaust, ReconWrite, ReconEnqueue, ReconUpdate,
      ReconMarkFailed
<1>4. ASSUME NEW w \in Worker, WorkerStep(w)
      PROVE  WritesEntity \/ UNCHANGED ent
  BY <1>4 DEF WorkerStep, WritesEntity, CallbackConflict
<1>5. ASSUME NEW r \in Req, DeliverCallback(r)
      PROVE  WritesEntity \/ UNCHANGED ent
  BY <1>5 DEF DeliverCallback, WritesEntity, CallbackSkipped, CallbackRead
<1>6. ASSUME NEW e \in Entity, DeliverPublish(e)
      PROVE  WritesEntity \/ UNCHANGED ent
  BY <1>6 DEF DeliverPublish, WritesEntity, PublishRead
<1>7. ASSUME FaultStep
      PROVE  WritesEntity \/ UNCHANGED ent
  BY <1>7
  DEF FaultStep, WritesEntity, ApproveEnqueueFails, RetryEnqueueFails, ApiCrash,
      ReconEnqueueFails, ReconCrash, WorkerFails, JobStalls
<1>8. ASSUME NEW r \in Req, Age(r)
      PROVE  WritesEntity \/ UNCHANGED ent
  BY <1>8 DEF Age
<1> QED
  BY <1>1, <1>2, <1>3, <1>4, <1>5, <1>6, <1>7, <1>8 DEF Next

\* The steps that change what a worker is doing, and that no other does.
WritesWorker ==
  \/ \E w \in Worker, r \in Req : CallbackRead(w, r)
  \/ \E w \in Worker :
          CallbackCommit(w) \/ PublishCommit(w) \/ WorkerFails(w) \/ CallbackConflict(w)
  \/ \E w \in Worker, e \in Entity : PublishRead(w, e)

LEMMA WorkerWriters ==
  ASSUME Next
  PROVE  WritesWorker \/ UNCHANGED wk
<1>1. ASSUME UserStep
      PROVE  WritesWorker \/ UNCHANGED wk
  BY <1>1
  DEF UserStep, WritesWorker, SubmitRead, RefinaliseRead, WithdrawRead, Approve, Reject,
      Cancel, RetryCallback, StartRetry, BulkRetryCallbacks, Settle, Toggle
<1>2. ASSUME NEW s \in Slot, ApiStep(s)
      PROVE  WritesWorker \/ UNCHANGED wk
  BY <1>2
  DEF ApiStep, WritesWorker, SubmitCheck, TakeEffect, Fanout, Schedule, ScheduleJob,
      FinaliseRead, FinaliseCommit, FinaliseConflict, CancelLinkedRequest, WithdrawWrite,
      ApproveEnqueue, MarkCallbackFailure, RetryEnqueue, RetryMarkFailed, SubmitCreate,
      RetryReset
<1>3. ASSUME ReconStep
      PROVE  WritesWorker \/ UNCHANGED wk
  BY <1>3
  DEF ReconStep, WritesWorker, ReconScan, ReconExhaust, ReconWrite, ReconEnqueue, ReconUpdate,
      ReconMarkFailed
<1>4. ASSUME NEW w \in Worker, WorkerStep(w)
      PROVE  WritesWorker \/ UNCHANGED wk
  BY <1>4 DEF WorkerStep, WritesWorker
<1>5. ASSUME NEW r \in Req, DeliverCallback(r)
      PROVE  WritesWorker \/ UNCHANGED wk
  BY <1>5 DEF DeliverCallback, WritesWorker, CallbackSkipped
<1>6. ASSUME NEW e \in Entity, DeliverPublish(e)
      PROVE  WritesWorker \/ UNCHANGED wk
  BY <1>6 DEF DeliverPublish, WritesWorker
<1>7. ASSUME FaultStep
      PROVE  WritesWorker \/ UNCHANGED wk
  BY <1>7
  DEF FaultStep, WritesWorker, ApproveEnqueueFails, RetryEnqueueFails, ApiCrash,
      ReconEnqueueFails, ReconCrash, JobStalls
<1>8. ASSUME NEW r \in Req, Age(r)
      PROVE  WritesWorker \/ UNCHANGED wk
  BY <1>8 DEF Age
<1> QED
  BY <1>1, <1>2, <1>3, <1>4, <1>5, <1>6, <1>7, <1>8 DEF Next

\* An approval is never taken back: no handler, retry, reconciliation or
\* callback writes the status or the approver of a request that was approved,
\* except to mark it executed.
LEMMA ApprovalStays ==
  ASSUME IndInv, Next, NEW q \in Req, Approved(q)
  PROVE  Approved(q)'
<1>req. req \in [Req -> ReqRow] /\ Approved(q)
  BY DEF IndInv, TypeOK
<1>1. ASSUME NEW s \in Slot, NEW r \in Req, SubmitCreate(s, r)
      PROVE  Approved(q)'
  BY <1>1, <1>req DEF SubmitCreate, Approved, ReqRow
<1>2. ASSUME NEW s \in Slot, FinaliseCommit(s)
      PROVE  Approved(q)'
  BY <1>2, <1>req DEF FinaliseCommit, Approved, ReqRow
<1>3. ASSUME NEW s \in Slot, CancelLinkedRequest(s)
      PROVE  Approved(q)'
  BY <1>3, <1>req DEF CancelLinkedRequest, CanCancel, Approved, ReqRow
<1>4. ASSUME NEW s \in Slot, NEW r \in Req, NEW u \in User, Approve(s, r, u)
      PROVE  Approved(q)'
  BY <1>4, <1>req DEF Approve, CanDecide, Approved, ReqRow
<1>5. ASSUME NEW s \in Slot, MarkCallbackFailure(s)
      PROVE  Approved(q)'
  BY <1>5, <1>req DEF MarkCallbackFailure, Approved, ReqRow
<1>6. ASSUME NEW r \in Req, NEW u \in User, Reject(r, u)
      PROVE  Approved(q)'
  BY <1>6, <1>req DEF Reject, CanDecide, Approved, ReqRow
<1>7. ASSUME NEW r \in Req, NEW u \in User, Cancel(r, u)
      PROVE  Approved(q)'
  BY <1>7, <1>req DEF Cancel, CanCancel, Approved, ReqRow
<1>8. ASSUME NEW r \in Req, Age(r)
      PROVE  Approved(q)'
  BY <1>8, <1>req DEF Age, Approved, ReqRow
<1>9. ASSUME NEW s \in Slot, NEW r \in Req, RetryReset(s, r)
      PROVE  Approved(q)'
  BY <1>9, <1>req DEF RetryReset, Approved, ReqRow
<1>10. ASSUME NEW s \in Slot, RetryMarkFailed(s)
      PROVE  Approved(q)'
  BY <1>10, <1>req DEF RetryMarkFailed, NextRetry, Retrying, Approved, ReqRow
<1>11. ASSUME NEW r \in Req, ReconExhaust(r)
      PROVE  Approved(q)'
  BY <1>11, <1>req DEF ReconExhaust, ReconWrite, ReconNext, ReconIdle, Approved, ReqRow
<1>12. ASSUME NEW r \in Req, ReconUpdate(r)
      PROVE  Approved(q)'
  BY <1>12, <1>req DEF ReconUpdate, ReconWrite, ReconNext, ReconIdle, Approved, ReqRow
<1>13. ASSUME NEW r \in Req, ReconMarkFailed(r)
      PROVE  Approved(q)'
  BY <1>13, <1>req DEF ReconMarkFailed, ReconWrite, ReconNext, ReconIdle, Approved, ReqRow
<1>14. ASSUME NEW w \in Worker, CallbackCommit(w)
      PROVE  Approved(q)'
  BY <1>14, <1>req DEF CallbackCommit, Free, Approved, ReqRow
<1>15. ASSUME UNCHANGED req
      PROVE  Approved(q)'
  BY <1>15, <1>req DEF Approved, ReqRow
<1> QED
  BY <1>1, <1>2, <1>3, <1>4, <1>5, <1>6, <1>7, <1>8, <1>9, <1>10, <1>11, <1>12, <1>13, <1>14,
     <1>15, RequestWriters
  DEF WritesRequest

\* Whoever approves is somebody else (transitionPendingRequest).
LEMMA ApprovedByOtherStep ==
  ASSUME IndInv, Next
  PROVE  ApprovedByOther'
<1>req. req \in [Req -> ReqRow] /\ ApprovedByOther
  BY DEF IndInv, TypeOK
<1>1. ASSUME NEW s \in Slot, NEW r \in Req, SubmitCreate(s, r)
      PROVE  ApprovedByOther'
  BY <1>1, <1>req DEF SubmitCreate, ApprovedByOther, Approved, ReqRow
<1>2. ASSUME NEW s \in Slot, FinaliseCommit(s)
      PROVE  ApprovedByOther'
  BY <1>2, <1>req DEF FinaliseCommit, ApprovedByOther, Approved, ReqRow
<1>3. ASSUME NEW s \in Slot, CancelLinkedRequest(s)
      PROVE  ApprovedByOther'
  BY <1>3, <1>req DEF CancelLinkedRequest, CanCancel, ApprovedByOther, Approved, ReqRow
<1>4. ASSUME NEW s \in Slot, NEW r \in Req, NEW u \in User, Approve(s, r, u)
      PROVE  ApprovedByOther'
  BY <1>4, <1>req, UserAssumption, NoneAssumption
  DEF Approve, CanDecide, ApprovedByOther, Approved, ReqRow
<1>5. ASSUME NEW s \in Slot, MarkCallbackFailure(s)
      PROVE  ApprovedByOther'
  BY <1>5, <1>req DEF MarkCallbackFailure, ApprovedByOther, Approved, ReqRow
<1>6. ASSUME NEW r \in Req, NEW u \in User, Reject(r, u)
      PROVE  ApprovedByOther'
  BY <1>6, <1>req DEF Reject, CanDecide, ApprovedByOther, Approved, ReqRow
<1>7. ASSUME NEW r \in Req, NEW u \in User, Cancel(r, u)
      PROVE  ApprovedByOther'
  BY <1>7, <1>req DEF Cancel, CanCancel, ApprovedByOther, Approved, ReqRow
<1>8. ASSUME NEW r \in Req, Age(r)
      PROVE  ApprovedByOther'
  BY <1>8, <1>req DEF Age, ApprovedByOther, Approved, ReqRow
<1>9. ASSUME NEW s \in Slot, NEW r \in Req, RetryReset(s, r)
      PROVE  ApprovedByOther'
  BY <1>9, <1>req DEF RetryReset, ApprovedByOther, Approved, ReqRow
<1>10. ASSUME NEW s \in Slot, RetryMarkFailed(s)
      PROVE  ApprovedByOther'
  BY <1>10, <1>req DEF RetryMarkFailed, NextRetry, Retrying, ApprovedByOther, Approved, ReqRow
<1>11. ASSUME NEW r \in Req, ReconExhaust(r)
      PROVE  ApprovedByOther'
  BY <1>11, <1>req
  DEF ReconExhaust, ReconWrite, ReconNext, ReconIdle, ApprovedByOther, Approved, ReqRow
<1>12. ASSUME NEW r \in Req, ReconUpdate(r)
      PROVE  ApprovedByOther'
  BY <1>12, <1>req
  DEF ReconUpdate, ReconWrite, ReconNext, ReconIdle, ApprovedByOther, Approved, ReqRow
<1>13. ASSUME NEW r \in Req, ReconMarkFailed(r)
      PROVE  ApprovedByOther'
  BY <1>13, <1>req
  DEF ReconMarkFailed, ReconWrite, ReconNext, ReconIdle, ApprovedByOther, Approved, ReqRow
<1>14. ASSUME NEW w \in Worker, CallbackCommit(w)
      PROVE  ApprovedByOther'
  BY <1>14, <1>req DEF CallbackCommit, Free, ApprovedByOther, Approved, ReqRow
<1>15. ASSUME UNCHANGED req
      PROVE  ApprovedByOther'
  BY <1>15, <1>req DEF ApprovedByOther, Approved, ReqRow
<1> QED
  BY <1>1, <1>2, <1>3, <1>4, <1>5, <1>6, <1>7, <1>8, <1>9, <1>10, <1>11, <1>12, <1>13, <1>14,
     <1>15, RequestWriters
  DEF WritesRequest

\* An effect is never undone.
LEMMA EffectStays ==
  ASSUME IndInv, Next, NEW d \in Entity, ent[d].via # "none"
  PROVE  ent'[d].via # "none"
<1>ent. ent \in [Entity -> EntRow] /\ ent[d].via # "none"
  BY DEF IndInv, TypeOK
<1>1. ASSUME NEW s \in Slot, NEW r \in Req, SubmitCreate(s, r)
      PROVE  ent'[d].via # "none"
  BY <1>1, <1>ent DEF SubmitCreate, EntRow
<1>2. ASSUME NEW s \in Slot, TakeEffect(s)
      PROVE  ent'[d].via # "none"
  BY <1>2, <1>ent DEF TakeEffect, EntRow
<1>3. ASSUME NEW s \in Slot, Fanout(s)
      PROVE  ent'[d].via # "none"
  BY <1>3, <1>ent DEF Fanout, EntRow
<1>4. ASSUME NEW s \in Slot, Schedule(s)
      PROVE  ent'[d].via # "none"
  BY <1>4, <1>ent DEF Schedule, EntRow
<1>5. ASSUME NEW s \in Slot, FinaliseCommit(s)
      PROVE  ent'[d].via # "none"
  BY <1>5, <1>ent DEF FinaliseCommit, EntRow
<1>6. ASSUME NEW s \in Slot, WithdrawWrite(s)
      PROVE  ent'[d].via # "none"
  BY <1>6, <1>ent DEF WithdrawWrite, EntRow
<1>7. ASSUME NEW e \in Entity, Settle(e)
      PROVE  ent'[d].via # "none"
  BY <1>7, <1>ent DEF Settle, EntRow
<1>8. ASSUME NEW w \in Worker, CallbackCommit(w)
      PROVE  ent'[d].via # "none"
  BY <1>8, <1>ent DEF CallbackCommit, Free, EntRow
<1>9. ASSUME NEW w \in Worker, PublishCommit(w)
      PROVE  ent'[d].via # "none"
  BY <1>9, <1>ent DEF PublishCommit, Free, EntRow
<1>10. ASSUME UNCHANGED ent
      PROVE  ent'[d].via # "none"
  BY <1>10, <1>ent DEF EntRow
<1> QED
  BY <1>1, <1>2, <1>3, <1>4, <1>5, <1>6, <1>7, <1>8, <1>9, <1>10, EntityWriters DEF WritesEntity

\* A request only gets a callback job from another job of it, or because it is
\* approved: the decision itself, a retry and a scan all ask for that.
LEMMA JobsComeFromApproval ==
  ASSUME IndInv, Next, NEW q \in Req, InFlight(q)'
  PROVE  InFlight(q) \/ req[q].status = "approved" \/ req'[q].status = "approved"
<1>type. /\ queue \in [Req -> 0..MaxJobs] /\ api \in [Slot -> Handler]
         /\ wk \in [Worker -> Processing] /\ recon \in Reconciling
         /\ req \in [Req -> ReqRow]
  BY DEF IndInv, TypeOK
<1>ref. References
  BY DEF IndInv
<1>q. InFlight(q)'
  OBVIOUS
<1>1. ASSUME NEW s \in Slot, NEW e \in Entity, NEW u \in User, SubmitRead(s, e, u)
      PROVE  InFlight(q) \/ req[q].status = "approved" \/ req'[q].status = "approved"
  BY <1>1, <1>q, <1>type, NoneAssumption DEF SubmitRead, Goto, Idle, Handling, InFlight, Handler
<1>2. ASSUME NEW s \in Slot, SubmitCheck(s)
      PROVE  InFlight(q) \/ req[q].status = "approved" \/ req'[q].status = "approved"
  BY <1>2, <1>q, <1>type, NoneAssumption
  DEF SubmitCheck, Goto, Idle, Handling, InFlight, Handler
<1>3. ASSUME NEW s \in Slot, NEW r \in Req, SubmitCreate(s, r)
      PROVE  InFlight(q) \/ req[q].status = "approved" \/ req'[q].status = "approved"
  BY <1>3, <1>q, <1>type, NoneAssumption
  DEF SubmitCreate, Goto, Idle, Handling, InFlight, Handler
<1>4. ASSUME NEW s \in Slot, TakeEffect(s)
      PROVE  InFlight(q) \/ req[q].status = "approved" \/ req'[q].status = "approved"
  BY <1>4, <1>q, <1>type, NoneAssumption DEF TakeEffect, Goto, Idle, Handling, InFlight, Handler
<1>5. ASSUME NEW s \in Slot, Fanout(s)
      PROVE  InFlight(q) \/ req[q].status = "approved" \/ req'[q].status = "approved"
  BY <1>5, <1>q, <1>type, NoneAssumption DEF Fanout, Goto, Idle, Handling, InFlight, Handler
<1>6. ASSUME NEW s \in Slot, Schedule(s)
      PROVE  InFlight(q) \/ req[q].status = "approved" \/ req'[q].status = "approved"
  BY <1>6, <1>q, <1>type, NoneAssumption DEF Schedule, Goto, Idle, Handling, InFlight, Handler
<1>7. ASSUME NEW s \in Slot, ScheduleJob(s)
      PROVE  InFlight(q) \/ req[q].status = "approved" \/ req'[q].status = "approved"
  BY <1>7, <1>q, <1>type, NoneAssumption
  DEF ScheduleJob, Goto, Idle, Handling, InFlight, Handler
<1>8. ASSUME NEW s \in Slot, NEW e \in Entity, NEW u \in User, RefinaliseRead(s, e, u)
      PROVE  InFlight(q) \/ req[q].status = "approved" \/ req'[q].status = "approved"
  BY <1>8, <1>q, <1>type, NoneAssumption
  DEF RefinaliseRead, Goto, Idle, Handling, InFlight, Handler
<1>9. ASSUME NEW s \in Slot, FinaliseRead(s)
      PROVE  InFlight(q) \/ req[q].status = "approved" \/ req'[q].status = "approved"
  BY <1>9, <1>q, <1>type, NoneAssumption
  DEF FinaliseRead, Goto, Idle, Handling, InFlight, Handler
<1>10. ASSUME NEW s \in Slot, FinaliseCommit(s)
      PROVE  InFlight(q) \/ req[q].status = "approved" \/ req'[q].status = "approved"
  BY <1>10, <1>q, <1>type, NoneAssumption
  DEF FinaliseCommit, Goto, Idle, Handling, InFlight, Handler
<1>11. ASSUME NEW s \in Slot, FinaliseConflict(s)
      PROVE  InFlight(q) \/ req[q].status = "approved" \/ req'[q].status = "approved"
  BY <1>11, <1>q, <1>type, NoneAssumption
  DEF FinaliseConflict, Goto, Idle, Handling, InFlight, Handler
<1>12. ASSUME NEW s \in Slot, NEW e \in Entity, NEW u \in User, WithdrawRead(s, e, u)
      PROVE  InFlight(q) \/ req[q].status = "approved" \/ req'[q].status = "approved"
  BY <1>12, <1>q, <1>type, NoneAssumption
  DEF WithdrawRead, LinkedRequest, Goto, Idle, Handling, InFlight, Handler
<1>13. ASSUME NEW s \in Slot, CancelLinkedRequest(s)
      PROVE  InFlight(q) \/ req[q].status = "approved" \/ req'[q].status = "approved"
  BY <1>13, <1>q, <1>type, NoneAssumption
  DEF CancelLinkedRequest, CanCancel, Goto, Idle, Handling, InFlight, Handler
<1>14. ASSUME NEW s \in Slot, WithdrawWrite(s)
      PROVE  InFlight(q) \/ req[q].status = "approved" \/ req'[q].status = "approved"
  BY <1>14, <1>q, <1>type, NoneAssumption
  DEF WithdrawWrite, Goto, Idle, Handling, InFlight, Handler
<1>15. ASSUME NEW s \in Slot, NEW r \in Req, NEW u \in User, Approve(s, r, u)
      PROVE  InFlight(q) \/ req[q].status = "approved" \/ req'[q].status = "approved"
  BY <1>15, <1>q, <1>type, NoneAssumption
  DEF Approve, CanDecide, Goto, Idle, Handling, InFlight, Handler, ReqRow
<1>16. ASSUME NEW s \in Slot, ApproveEnqueue(s)
      PROVE  InFlight(q) \/ req[q].status = "approved" \/ req'[q].status = "approved"
  BY <1>16, <1>q, <1>type, NoneAssumption, <1>ref
  DEF ApproveEnqueue, Enqueue, Goto, Idle, Handling, InFlight, Handler, References
<1>17. ASSUME NEW s \in Slot, ApproveEnqueueFails(s)
      PROVE  InFlight(q) \/ req[q].status = "approved" \/ req'[q].status = "approved"
  BY <1>17, <1>q, <1>type, NoneAssumption, <1>ref
  DEF ApproveEnqueueFails, Enqueue, Goto, Idle, Handling, InFlight, Handler, References
<1>18. ASSUME NEW s \in Slot, MarkCallbackFailure(s)
      PROVE  InFlight(q) \/ req[q].status = "approved" \/ req'[q].status = "approved"
  BY <1>18, <1>q, <1>type, NoneAssumption, <1>ref
  DEF MarkCallbackFailure, Goto, Idle, Handling, InFlight, Handler, References
<1>19. ASSUME NEW s \in Slot, NEW r \in Req, RetryCallback(s, r)
      PROVE  InFlight(q) \/ req[q].status = "approved" \/ req'[q].status = "approved"
  BY <1>19, <1>q, <1>type, NoneAssumption
  DEF RetryCallback, StartRetry, Goto, Idle, Handling, Retrying, InFlight, Handler
<1>20. ASSUME NEW s \in Slot, NEW f, BulkRetryCallbacks(s, f)
      PROVE  InFlight(q) \/ req[q].status = "approved" \/ req'[q].status = "approved"
  BY <1>20, <1>q, <1>type, NoneAssumption
  DEF BulkRetryCallbacks, StartRetry, Goto, Idle, Handling, Retrying, InFlight, Handler
<1>21. ASSUME NEW s \in Slot, NEW r \in Req, RetryReset(s, r)
      PROVE  InFlight(q) \/ req[q].status = "approved" \/ req'[q].status = "approved"
  BY <1>21, <1>q, <1>type, NoneAssumption
  DEF RetryReset, Goto, Idle, Handling, InFlight, Handler
<1>22. ASSUME NEW s \in Slot, RetryEnqueue(s)
      PROVE  InFlight(q) \/ req[q].status = "approved" \/ req'[q].status = "approved"
  BY <1>22, <1>q, <1>type, NoneAssumption, <1>ref
  DEF RetryEnqueue, NextRetry, Retrying, Enqueue, Goto, Idle, Handling, InFlight, Handler,
      References
<1>23. ASSUME NEW s \in Slot, RetryEnqueueFails(s)
      PROVE  InFlight(q) \/ req[q].status = "approved" \/ req'[q].status = "approved"
  BY <1>23, <1>q, <1>type, NoneAssumption, <1>ref
  DEF RetryEnqueueFails, Enqueue, Goto, Idle, Handling, InFlight, Handler, References
<1>24. ASSUME NEW s \in Slot, RetryMarkFailed(s)
      PROVE  InFlight(q) \/ req[q].status = "approved" \/ req'[q].status = "approved"
  BY <1>24, <1>q, <1>type, NoneAssumption, <1>ref
  DEF RetryMarkFailed, NextRetry, Retrying, Goto, Idle, Handling, InFlight, Handler,
      References
<1>25. ASSUME ReconScan
      PROVE  InFlight(q) \/ req[q].status = "approved" \/ req'[q].status = "approved"
  BY <1>25, <1>q, <1>type, NoneAssumption DEF ReconScan, Stuck, InFlight, Reconciling
<1>26. ASSUME NEW r \in Req, ReconExhaust(r)
      PROVE  InFlight(q) \/ req[q].status = "approved" \/ req'[q].status = "approved"
  BY <1>26, <1>q, <1>type, NoneAssumption
  DEF ReconExhaust, ReconWrite, ReconNext, ReconIdle, InFlight, Reconciling
<1>27. ASSUME NEW r \in Req, ReconEnqueue(r)
      PROVE  InFlight(q) \/ req[q].status = "approved" \/ req'[q].status = "approved"
  BY <1>27, <1>q, <1>type, NoneAssumption DEF ReconEnqueue, Enqueue, InFlight, Reconciling
<1>28. ASSUME NEW r \in Req, ReconEnqueueFails(r)
      PROVE  InFlight(q) \/ req[q].status = "approved" \/ req'[q].status = "approved"
  BY <1>28, <1>q, <1>type, NoneAssumption DEF ReconEnqueueFails, Enqueue, InFlight, Reconciling
<1>29. ASSUME NEW r \in Req, ReconUpdate(r)
      PROVE  InFlight(q) \/ req[q].status = "approved" \/ req'[q].status = "approved"
  BY <1>29, <1>q, <1>type, NoneAssumption, <1>ref
  DEF ReconUpdate, ReconWrite, ReconNext, ReconIdle, InFlight, Reconciling, References
<1>30. ASSUME NEW r \in Req, ReconMarkFailed(r)
      PROVE  InFlight(q) \/ req[q].status = "approved" \/ req'[q].status = "approved"
  BY <1>30, <1>q, <1>type, NoneAssumption, <1>ref
  DEF ReconMarkFailed, ReconWrite, ReconNext, ReconIdle, InFlight, Reconciling, References
<1>31. ASSUME ReconCrash
      PROVE  InFlight(q) \/ req[q].status = "approved" \/ req'[q].status = "approved"
  BY <1>31, <1>q, <1>type, NoneAssumption DEF ReconCrash, ReconIdle, InFlight, Reconciling
<1>32. ASSUME NEW r \in Req, CallbackSkipped(r)
      PROVE  InFlight(q) \/ req[q].status = "approved" \/ req'[q].status = "approved"
  BY <1>32, <1>q, <1>type DEF CallbackSkipped, Dequeue, InFlight
<1>33. ASSUME NEW w \in Worker, NEW r \in Req, CallbackRead(w, r)
      PROVE  InFlight(q) \/ req[q].status = "approved" \/ req'[q].status = "approved"
  BY <1>33, <1>q, <1>type, NoneAssumption DEF CallbackRead, Dequeue, Take, InFlight, Processing
<1>34. ASSUME NEW w \in Worker, CallbackCommit(w)
      PROVE  InFlight(q) \/ req[q].status = "approved" \/ req'[q].status = "approved"
  BY <1>34, <1>q, <1>type, NoneAssumption DEF CallbackCommit, Free, Take, InFlight, Processing
<1>35. ASSUME NEW w \in Worker, NEW e \in Entity, PublishRead(w, e)
      PROVE  InFlight(q) \/ req[q].status = "approved" \/ req'[q].status = "approved"
  BY <1>35, <1>q, <1>type, NoneAssumption DEF PublishRead, Take, InFlight, Processing
<1>36. ASSUME NEW w \in Worker, PublishCommit(w)
      PROVE  InFlight(q) \/ req[q].status = "approved" \/ req'[q].status = "approved"
  BY <1>36, <1>q, <1>type, NoneAssumption DEF PublishCommit, Free, Take, InFlight, Processing
<1>37. ASSUME NEW w \in Worker, WorkerFails(w)
      PROVE  InFlight(q) \/ req[q].status = "approved" \/ req'[q].status = "approved"
  BY <1>37, <1>q, <1>type, NoneAssumption, <1>ref
  DEF WorkerFails, Free, Redeliver, Enqueue, Take, InFlight, Processing, References
<1>38. ASSUME NEW w \in Worker, CallbackConflict(w)
      PROVE  InFlight(q) \/ req[q].status = "approved" \/ req'[q].status = "approved"
  BY <1>38, <1>q, <1>type, NoneAssumption, <1>ref
  DEF CallbackConflict, Free, Redeliver, Enqueue, Take, InFlight, Processing, References
<1>39. ASSUME NEW w \in Worker, JobStalls(w)
      PROVE  InFlight(q) \/ req[q].status = "approved" \/ req'[q].status = "approved"
  BY <1>39, <1>q, <1>type, <1>ref DEF JobStalls, Enqueue, InFlight, References
<1>40. ASSUME NEW s \in Slot, ApiCrash(s)
      PROVE  InFlight(q) \/ req[q].status = "approved" \/ req'[q].status = "approved"
  BY <1>40, <1>q, <1>type, NoneAssumption DEF ApiCrash, Goto, Idle, Handling, InFlight, Handler
<1>41. ASSUME UNCHANGED <<queue, api, wk, recon>>
      PROVE  InFlight(q) \/ req[q].status = "approved" \/ req'[q].status = "approved"
  BY <1>41, <1>q DEF InFlight
<1> QED
  BY <1>1, <1>2, <1>3, <1>4, <1>5, <1>6, <1>7, <1>8, <1>9, <1>10, <1>11, <1>12, <1>13, <1>14,
     <1>15, <1>16, <1>17, <1>18, <1>19, <1>20, <1>21, <1>22, <1>23, <1>24, <1>25, <1>26,
     <1>27, <1>28, <1>29, <1>30, <1>31, <1>32, <1>33, <1>34, <1>35, <1>36, <1>37, <1>38,
     <1>39, <1>40, <1>41
  DEF Next, UserStep, ApiStep, ReconStep, WorkerStep, DeliverCallback, DeliverPublish,
      FaultStep, Settle, Reject, Cancel, Age, Toggle

\* Hence every request with a job is approved after the step as well.
LEMMA JobsStep ==
  ASSUME IndInv, Next
  PROVE  JobsOnlyForApproved'
<1> SUFFICES ASSUME NEW q \in Req, InFlight(q)'
             PROVE  Approved(q)'
  BY DEF JobsOnlyForApproved
<1>1. CASE InFlight(q) \/ req[q].status = "approved"
  <2>1. Approved(q)
    BY <1>1 DEF IndInv, JobsOnlyForApproved, ApprovedByOther
  <2> QED
    BY <2>1, ApprovalStays
<1>2. CASE req'[q].status = "approved"
  BY <1>2, ApprovedByOtherStep DEF ApprovedByOther
<1> QED
  BY <1>1, <1>2, JobsComeFromApproval

\* The only step that puts an entity into effect by callback is CallbackCommit,
\* which holds a job, hence an approved request of that entity.
LEMMA FourEyesStep ==
  ASSUME IndInv, Next
  PROVE  FourEyes'
<1> SUFFICES ASSUME NEW d \in Entity, ent'[d].via = "callback"
             PROVE  \E q \in Req : Target[q] = d /\ Approved(q)
  <2>1. \A q \in Req : Approved(q) => Approved(q)'
    BY ApprovalStays
  <2> QED
    BY <2>1 DEF FourEyes
<1>inv. ent \in [Entity -> EntRow] /\ FourEyes /\ ent'[d].via = "callback"
  BY DEF IndInv, TypeOK
<1>1. ASSUME NEW s \in Slot, NEW r \in Req, SubmitCreate(s, r)
      PROVE  \E q \in Req : Target[q] = d /\ Approved(q)
  BY <1>1, <1>inv DEF SubmitCreate, EntRow, FourEyes
<1>2. ASSUME NEW s \in Slot, TakeEffect(s)
      PROVE  \E q \in Req : Target[q] = d /\ Approved(q)
  BY <1>2, <1>inv DEF TakeEffect, EntRow, FourEyes
<1>3. ASSUME NEW s \in Slot, Fanout(s)
      PROVE  \E q \in Req : Target[q] = d /\ Approved(q)
  BY <1>3, <1>inv DEF Fanout, EntRow, FourEyes
<1>4. ASSUME NEW s \in Slot, Schedule(s)
      PROVE  \E q \in Req : Target[q] = d /\ Approved(q)
  BY <1>4, <1>inv DEF Schedule, EntRow, FourEyes
<1>5. ASSUME NEW s \in Slot, FinaliseCommit(s)
      PROVE  \E q \in Req : Target[q] = d /\ Approved(q)
  BY <1>5, <1>inv DEF FinaliseCommit, EntRow, FourEyes
<1>6. ASSUME NEW s \in Slot, WithdrawWrite(s)
      PROVE  \E q \in Req : Target[q] = d /\ Approved(q)
  BY <1>6, <1>inv DEF WithdrawWrite, EntRow, FourEyes
<1>7. ASSUME NEW e \in Entity, Settle(e)
      PROVE  \E q \in Req : Target[q] = d /\ Approved(q)
  BY <1>7, <1>inv DEF Settle, EntRow, FourEyes
<1>8. ASSUME NEW w \in Worker, CallbackCommit(w)
      PROVE  \E q \in Req : Target[q] = d /\ Approved(q)
  <2>1. CASE d = wk[w].ent
    <3>1. wk[w].req \in Req /\ Target[wk[w].req] = d /\ InFlight(wk[w].req)
      BY <2>1, <1>8 DEF CallbackCommit, IndInv, References, InFlight
    <3> QED
      BY <3>1 DEF IndInv, JobsOnlyForApproved
  <2>2. CASE d # wk[w].ent
    <3>1. ent'[d] = ent[d]
      BY <2>2, <1>8, <1>inv DEF CallbackCommit
    <3> QED
      BY <3>1, <1>inv DEF FourEyes
  <2> QED
    BY <2>1, <2>2
<1>9. ASSUME NEW w \in Worker, PublishCommit(w)
      PROVE  \E q \in Req : Target[q] = d /\ Approved(q)
  BY <1>9, <1>inv DEF PublishCommit, Free, EntRow, FourEyes
<1>10. ASSUME UNCHANGED ent
      PROVE  \E q \in Req : Target[q] = d /\ Approved(q)
  BY <1>10, <1>inv DEF EntRow, FourEyes
<1> QED
  BY <1>1, <1>2, <1>3, <1>4, <1>5, <1>6, <1>7, <1>8, <1>9, <1>10, EntityWriters DEF WritesEntity

\* A row only shows a status of effect once the effect has happened.
LEMMA RowEffectsStep ==
  ASSUME IndInv, Next, NEW d \in Entity, ent'[d].status \in {"published", "issued", "finalised", "settled"}
  PROVE  ent'[d].via # "none"
<1>ent. /\ ent \in [Entity -> EntRow]
        /\ ent[d].status \in {"published", "issued", "finalised", "settled"} => ent[d].via # "none"
        /\ ent'[d].status \in {"published", "issued", "finalised", "settled"}
  BY DEF IndInv, TypeOK, EffectsHappened
<1>1. ASSUME NEW s \in Slot, NEW r \in Req, SubmitCreate(s, r)
      PROVE  ent'[d].via # "none"
  BY <1>1, <1>ent DEF SubmitCreate, EntRow
<1>2. ASSUME NEW s \in Slot, TakeEffect(s)
      PROVE  ent'[d].via # "none"
  BY <1>2, <1>ent DEF TakeEffect, EntRow
<1>3. ASSUME NEW s \in Slot, Fanout(s)
      PROVE  ent'[d].via # "none"
  BY <1>3, <1>ent DEF Fanout, EntRow
<1>4. ASSUME NEW s \in Slot, Schedule(s)
      PROVE  ent'[d].via # "none"
  BY <1>4, <1>ent DEF Schedule, EntRow
<1>5. ASSUME NEW s \in Slot, FinaliseCommit(s)
      PROVE  ent'[d].via # "none"
  BY <1>5, <1>ent DEF FinaliseCommit, EntRow
<1>6. ASSUME NEW s \in Slot, WithdrawWrite(s)
      PROVE  ent'[d].via # "none"
  BY <1>6, <1>ent DEF WithdrawWrite, Withdrawn, EntRow
<1>7. ASSUME NEW e \in Entity, Settle(e)
      PROVE  ent'[d].via # "none"
  BY <1>7, <1>ent DEF Settle, EntRow
<1>8. ASSUME NEW w \in Worker, CallbackCommit(w)
      PROVE  ent'[d].via # "none"
  BY <1>8, <1>ent DEF CallbackCommit, Free, EntRow
<1>9. ASSUME NEW w \in Worker, PublishCommit(w)
      PROVE  ent'[d].via # "none"
  BY <1>9, <1>ent DEF PublishCommit, Free, EntRow
<1>10. ASSUME UNCHANGED ent
      PROVE  ent'[d].via # "none"
  BY <1>10, <1>ent DEF EntRow
<1> QED
  BY <1>1, <1>2, <1>3, <1>4, <1>5, <1>6, <1>7, <1>8, <1>9, <1>10, EntityWriters DEF WritesEntity

\* What a callback has read as done was done.
LEMMA SeenEffectsStep ==
  ASSUME IndInv, Next, NEW v \in Worker,
         wk'[v].job = "callback", AlreadyDone(Kind[wk'[v].ent], wk'[v].seen)
  PROVE  ent'[wk'[v].ent].via # "none"
<1>type. wk \in [Worker -> Processing] /\ ent \in [Entity -> EntRow]
  BY DEF IndInv, TypeOK
<1>1. CASE wk'[v] = wk[v]
  <2>1. wk[v].ent \in Entity /\ ent[wk[v].ent].via # "none"
    BY <1>1, TargetAssumption DEF IndInv, References, EffectsHappened
  <2> QED
    BY <1>1, <2>1, EffectStays
<1>2. ASSUME NEW r \in Req, CallbackRead(v, r)
      PROVE  ent'[wk'[v].ent].via # "none"
  <2>1. /\ wk'[v].ent = Target[r] /\ wk'[v].seen = ent[Target[r]].status
        /\ ent' = ent /\ Target[r] \in Entity
    BY <1>2, <1>type, TargetAssumption DEF CallbackRead, Take
  <2>2. ent[Target[r]].status \in {"published", "issued", "finalised"}
    BY <2>1, KindAssumption DEF AlreadyDone, Effective
  <2> QED
    BY <2>1, <2>2 DEF IndInv, EffectsHappened
<1>3. wk'[v] = wk[v] \/ \E r \in Req : CallbackRead(v, r)
  <2>1. ASSUME NEW w \in Worker, NEW r \in Req, CallbackRead(w, r)
        PROVE  wk'[v] = wk[v] \/ \E x \in Req : CallbackRead(v, x)
    <3>1. CASE w = v
      BY <3>1, <2>1
    <3>2. CASE w # v
      BY <3>2, <2>1, <1>type DEF CallbackRead, Take
    <3> QED
      BY <3>1, <3>2
  <2>2. ASSUME NEW w \in Worker, CallbackCommit(w)
        PROVE  wk'[v] = wk[v] \/ \E x \in Req : CallbackRead(v, x)
    BY <2>2, <1>type, wk'[v].job = "callback" DEF CallbackCommit, Take, Free
  <2>3. ASSUME NEW w \in Worker, NEW e \in Entity, PublishRead(w, e)
        PROVE  wk'[v] = wk[v] \/ \E x \in Req : CallbackRead(v, x)
    BY <2>3, <1>type, wk'[v].job = "callback" DEF PublishRead, Take
  <2>4. ASSUME NEW w \in Worker, PublishCommit(w)
        PROVE  wk'[v] = wk[v] \/ \E x \in Req : CallbackRead(v, x)
    BY <2>4, <1>type, wk'[v].job = "callback" DEF PublishCommit, Take, Free
  <2>5. ASSUME NEW w \in Worker, WorkerFails(w)
        PROVE  wk'[v] = wk[v] \/ \E x \in Req : CallbackRead(v, x)
    BY <2>5, <1>type, wk'[v].job = "callback" DEF WorkerFails, Take, Free
  <2>6. ASSUME NEW w \in Worker, CallbackConflict(w)
        PROVE  wk'[v] = wk[v] \/ \E x \in Req : CallbackRead(v, x)
    BY <2>6, <1>type, wk'[v].job = "callback" DEF CallbackConflict, Take, Free
  <2>7. CASE UNCHANGED wk
    BY <2>7
  <2> QED
    BY <2>1, <2>2, <2>3, <2>4, <2>5, <2>6, <2>7, WorkerWriters DEF WritesWorker
<1> QED
  BY <1>1, <1>2, <1>3

\* The steps of the API handlers, and that no other step changes one.
WritesHandler ==
  \/ \E s \in Slot, e \in Entity, u \in User :
          SubmitRead(s, e, u) \/ RefinaliseRead(s, e, u) \/ WithdrawRead(s, e, u)
  \/ \E s \in Slot :
          SubmitCheck(s) \/ TakeEffect(s) \/ Fanout(s) \/ Schedule(s) \/ ScheduleJob(s)
       \/ FinaliseRead(s) \/ FinaliseCommit(s) \/ FinaliseConflict(s)
       \/ CancelLinkedRequest(s) \/ WithdrawWrite(s) \/ ApproveEnqueue(s)
       \/ ApproveEnqueueFails(s) \/ MarkCallbackFailure(s) \/ RetryEnqueue(s)
       \/ RetryEnqueueFails(s) \/ RetryMarkFailed(s) \/ ApiCrash(s)
  \/ \E s \in Slot, r \in Req : SubmitCreate(s, r) \/ RetryCallback(s, r) \/ RetryReset(s, r)
  \/ \E s \in Slot, r \in Req, u \in User : Approve(s, r, u)
  \/ \E s \in Slot, f \in {{"failed"}, {"pending"}, {"failed", "pending"}} :
          BulkRetryCallbacks(s, f)

LEMMA HandlerWriters ==
  ASSUME Next
  PROVE  WritesHandler \/ UNCHANGED api
<1>1. ASSUME UserStep
      PROVE  WritesHandler \/ UNCHANGED api
  BY <1>1 DEF UserStep, WritesHandler, Reject, Cancel, Settle, Toggle
<1>2. ASSUME NEW s \in Slot, ApiStep(s)
      PROVE  WritesHandler \/ UNCHANGED api
  BY <1>2 DEF ApiStep, WritesHandler
<1>3. ASSUME ReconStep
      PROVE  WritesHandler \/ UNCHANGED api
  BY <1>3
  DEF ReconStep, WritesHandler, ReconScan, ReconExhaust, ReconWrite, ReconEnqueue,
      ReconUpdate, ReconMarkFailed
<1>4. ASSUME NEW w \in Worker, WorkerStep(w)
      PROVE  WritesHandler \/ UNCHANGED api
  BY <1>4 DEF WorkerStep, WritesHandler, CallbackCommit, PublishCommit, CallbackConflict
<1>5. ASSUME NEW r \in Req, DeliverCallback(r)
      PROVE  WritesHandler \/ UNCHANGED api
  BY <1>5 DEF DeliverCallback, WritesHandler, CallbackSkipped, CallbackRead
<1>6. ASSUME NEW e \in Entity, DeliverPublish(e)
      PROVE  WritesHandler \/ UNCHANGED api
  BY <1>6 DEF DeliverPublish, WritesHandler, PublishRead
<1>7. ASSUME FaultStep
      PROVE  WritesHandler \/ UNCHANGED api
  BY <1>7 DEF FaultStep, WritesHandler, ReconEnqueueFails, ReconCrash, WorkerFails, JobStalls
<1>8. ASSUME NEW r \in Req, Age(r)
      PROVE  WritesHandler \/ UNCHANGED api
  BY <1>8 DEF Age
<1> QED
  BY <1>1, <1>2, <1>3, <1>4, <1>5, <1>6, <1>7, <1>8 DEF Next

\* A handler only starts to finalise when it has read the run.
LEMMA HandlerKeeps ==
  ASSUME IndInv, Next, NEW t \in Slot, api'[t].pc = "finalise"
  PROVE  api'[t] = api[t] \/ FinaliseRead(t)
<1>type. api \in [Slot -> Handler] /\ api'[t].pc = "finalise"
  BY DEF IndInv, TypeOK
<1>1. ASSUME NEW s \in Slot, NEW e \in Entity, NEW u \in User, SubmitRead(s, e, u)
      PROVE  api'[t] = api[t] \/ FinaliseRead(t)
  BY <1>1, <1>type DEF SubmitRead, Goto, Idle, Handling
<1>2. ASSUME NEW s \in Slot, SubmitCheck(s)
      PROVE  api'[t] = api[t] \/ FinaliseRead(t)
  BY <1>2, <1>type DEF SubmitCheck, Goto, Idle, Handling
<1>3. ASSUME NEW s \in Slot, NEW r \in Req, SubmitCreate(s, r)
      PROVE  api'[t] = api[t] \/ FinaliseRead(t)
  BY <1>3, <1>type DEF SubmitCreate, Goto, Idle, Handling
<1>4. ASSUME NEW s \in Slot, TakeEffect(s)
      PROVE  api'[t] = api[t] \/ FinaliseRead(t)
  BY <1>4, <1>type DEF TakeEffect, Goto, Idle, Handling
<1>5. ASSUME NEW s \in Slot, Fanout(s)
      PROVE  api'[t] = api[t] \/ FinaliseRead(t)
  BY <1>5, <1>type DEF Fanout, Goto, Idle, Handling
<1>6. ASSUME NEW s \in Slot, Schedule(s)
      PROVE  api'[t] = api[t] \/ FinaliseRead(t)
  BY <1>6, <1>type DEF Schedule, Goto, Idle, Handling
<1>7. ASSUME NEW s \in Slot, ScheduleJob(s)
      PROVE  api'[t] = api[t] \/ FinaliseRead(t)
  BY <1>7, <1>type DEF ScheduleJob, Goto, Idle, Handling
<1>8. ASSUME NEW s \in Slot, NEW e \in Entity, NEW u \in User, RefinaliseRead(s, e, u)
      PROVE  api'[t] = api[t] \/ FinaliseRead(t)
  BY <1>8, <1>type DEF RefinaliseRead, Goto, Idle, Handling
<1>9. ASSUME NEW s \in Slot, FinaliseRead(s)
      PROVE  api'[t] = api[t] \/ FinaliseRead(t)
  BY <1>9, <1>type DEF Goto, Idle, Handling, FinaliseRead
<1>10. ASSUME NEW s \in Slot, FinaliseCommit(s)
      PROVE  api'[t] = api[t] \/ FinaliseRead(t)
  BY <1>10, <1>type DEF FinaliseCommit, Goto, Idle, Handling
<1>11. ASSUME NEW s \in Slot, FinaliseConflict(s)
      PROVE  api'[t] = api[t] \/ FinaliseRead(t)
  BY <1>11, <1>type DEF FinaliseConflict, Goto, Idle, Handling
<1>12. ASSUME NEW s \in Slot, NEW e \in Entity, NEW u \in User, WithdrawRead(s, e, u)
      PROVE  api'[t] = api[t] \/ FinaliseRead(t)
  BY <1>12, <1>type DEF WithdrawRead, Goto, Idle, Handling, LinkedRequest
<1>13. ASSUME NEW s \in Slot, CancelLinkedRequest(s)
      PROVE  api'[t] = api[t] \/ FinaliseRead(t)
  <2>1. \/ api' = [api EXCEPT ![s] = Idle]
        \/ api' = [api EXCEPT ![s] = [api[s] EXCEPT !.pc = "withdraw"]]
    BY <1>13 DEF CancelLinkedRequest, Goto
  <2> QED
    BY <2>1, <1>type DEF Idle, Handling, Handler
<1>14. ASSUME NEW s \in Slot, WithdrawWrite(s)
      PROVE  api'[t] = api[t] \/ FinaliseRead(t)
  BY <1>14, <1>type DEF WithdrawWrite, Goto, Idle, Handling
<1>15. ASSUME NEW s \in Slot, NEW r \in Req, NEW u \in User, Approve(s, r, u)
      PROVE  api'[t] = api[t] \/ FinaliseRead(t)
  BY <1>15, <1>type DEF Approve, Goto, Idle, Handling, CanDecide
<1>16. ASSUME NEW s \in Slot, ApproveEnqueue(s)
      PROVE  api'[t] = api[t] \/ FinaliseRead(t)
  BY <1>16, <1>type DEF ApproveEnqueue, Goto, Idle, Handling, Enqueue
<1>17. ASSUME NEW s \in Slot, ApproveEnqueueFails(s)
      PROVE  api'[t] = api[t] \/ FinaliseRead(t)
  BY <1>17, <1>type DEF ApproveEnqueueFails, Goto, Idle, Handling, Enqueue
<1>18. ASSUME NEW s \in Slot, MarkCallbackFailure(s)
      PROVE  api'[t] = api[t] \/ FinaliseRead(t)
  BY <1>18, <1>type DEF MarkCallbackFailure, Goto, Idle, Handling
<1>19. ASSUME NEW s \in Slot, NEW r \in Req, RetryCallback(s, r)
      PROVE  api'[t] = api[t] \/ FinaliseRead(t)
  BY <1>19, <1>type DEF RetryCallback, Goto, Idle, Handling, StartRetry, Retrying
<1>20. ASSUME NEW s \in Slot, NEW f, BulkRetryCallbacks(s, f)
      PROVE  api'[t] = api[t] \/ FinaliseRead(t)
  BY <1>20, <1>type DEF BulkRetryCallbacks, Goto, Idle, Handling, StartRetry, Retrying
<1>21. ASSUME NEW s \in Slot, NEW r \in Req, RetryReset(s, r)
      PROVE  api'[t] = api[t] \/ FinaliseRead(t)
  BY <1>21, <1>type DEF RetryReset, Goto, Idle, Handling, Retrying
<1>22. ASSUME NEW s \in Slot, RetryEnqueue(s)
      PROVE  api'[t] = api[t] \/ FinaliseRead(t)
  BY <1>22, <1>type DEF RetryEnqueue, Goto, Idle, Handling, NextRetry, Retrying, Enqueue
<1>23. ASSUME NEW s \in Slot, RetryEnqueueFails(s)
      PROVE  api'[t] = api[t] \/ FinaliseRead(t)
  BY <1>23, <1>type DEF RetryEnqueueFails, Goto, Idle, Handling, Enqueue, Retrying
<1>24. ASSUME NEW s \in Slot, RetryMarkFailed(s)
      PROVE  api'[t] = api[t] \/ FinaliseRead(t)
  BY <1>24, <1>type DEF RetryMarkFailed, Goto, Idle, Handling, NextRetry, Retrying
<1>25. ASSUME NEW s \in Slot, ApiCrash(s)
      PROVE  api'[t] = api[t] \/ FinaliseRead(t)
  BY <1>25, <1>type DEF ApiCrash, Goto, Idle, Handling
<1>26. CASE UNCHANGED api
  BY <1>26
<1> QED
  BY <1>1, <1>2, <1>3, <1>4, <1>5, <1>6, <1>7, <1>8, <1>9, <1>10, <1>11, <1>12, <1>13, <1>14,
     <1>15, <1>16, <1>17, <1>18, <1>19, <1>20, <1>21, <1>22, <1>23, <1>24, <1>25, <1>26,
     HandlerWriters
  DEF WritesHandler

\* A row of approval_requests is never deleted or emptied.
LEMMA RequestStays ==
  ASSUME IndInv, Next, NEW q \in Req, req[q].status # "absent"
  PROVE  req'[q].status # "absent"
<1>req. req \in [Req -> ReqRow] /\ req[q].status # "absent"
  BY DEF IndInv, TypeOK
<1>1. ASSUME NEW s \in Slot, NEW r \in Req, SubmitCreate(s, r)
      PROVE  req'[q].status # "absent"
  BY <1>1, <1>req DEF SubmitCreate, ReqRow
<1>2. ASSUME NEW s \in Slot, FinaliseCommit(s)
      PROVE  req'[q].status # "absent"
  BY <1>2, <1>req DEF FinaliseCommit, ReqRow
<1>3. ASSUME NEW s \in Slot, CancelLinkedRequest(s)
      PROVE  req'[q].status # "absent"
  BY <1>3, <1>req DEF CancelLinkedRequest, CanCancel, ReqRow
<1>4. ASSUME NEW s \in Slot, NEW r \in Req, NEW u \in User, Approve(s, r, u)
      PROVE  req'[q].status # "absent"
  BY <1>4, <1>req DEF Approve, CanDecide, ReqRow
<1>5. ASSUME NEW s \in Slot, MarkCallbackFailure(s)
      PROVE  req'[q].status # "absent"
  BY <1>5, <1>req DEF MarkCallbackFailure, ReqRow
<1>6. ASSUME NEW r \in Req, NEW u \in User, Reject(r, u)
      PROVE  req'[q].status # "absent"
  BY <1>6, <1>req DEF Reject, CanDecide, ReqRow
<1>7. ASSUME NEW r \in Req, NEW u \in User, Cancel(r, u)
      PROVE  req'[q].status # "absent"
  BY <1>7, <1>req DEF Cancel, CanCancel, ReqRow
<1>8. ASSUME NEW r \in Req, Age(r)
      PROVE  req'[q].status # "absent"
  BY <1>8, <1>req DEF Age, ReqRow
<1>9. ASSUME NEW s \in Slot, NEW r \in Req, RetryReset(s, r)
      PROVE  req'[q].status # "absent"
  BY <1>9, <1>req DEF RetryReset, ReqRow
<1>10. ASSUME NEW s \in Slot, RetryMarkFailed(s)
      PROVE  req'[q].status # "absent"
  BY <1>10, <1>req DEF RetryMarkFailed, NextRetry, Retrying, ReqRow
<1>11. ASSUME NEW r \in Req, ReconExhaust(r)
      PROVE  req'[q].status # "absent"
  BY <1>11, <1>req DEF ReconExhaust, ReconWrite, ReconNext, ReconIdle, ReqRow
<1>12. ASSUME NEW r \in Req, ReconUpdate(r)
      PROVE  req'[q].status # "absent"
  BY <1>12, <1>req DEF ReconUpdate, ReconWrite, ReconNext, ReconIdle, ReqRow
<1>13. ASSUME NEW r \in Req, ReconMarkFailed(r)
      PROVE  req'[q].status # "absent"
  BY <1>13, <1>req DEF ReconMarkFailed, ReconWrite, ReconNext, ReconIdle, ReqRow
<1>14. ASSUME NEW w \in Worker, CallbackCommit(w)
      PROVE  req'[q].status # "absent"
  BY <1>14, <1>req DEF CallbackCommit, Free, ReqRow
<1>15. ASSUME UNCHANGED req
      PROVE  req'[q].status # "absent"
  BY <1>15, <1>req DEF ReqRow
<1> QED
  BY <1>1, <1>2, <1>3, <1>4, <1>5, <1>6, <1>7, <1>8, <1>9, <1>10, <1>11, <1>12, <1>13, <1>14,
     <1>15, RequestWriters
  DEF WritesRequest

\* Links are written with the request they point to, by SubmitCreate.
LEMMA LinksStep ==
  ASSUME IndInv, Next
  PROVE  LinksExist'
<1>type. /\ ent \in [Entity -> EntRow] /\ api \in [Slot -> Handler] /\ req \in [Req -> ReqRow]
         /\ api' \in [Slot -> Handler]
  BY TypeStep DEF IndInv, TypeOK
<1>inv. LinksExist /\ References
  BY DEF IndInv
<1>1. ASSUME NEW d \in Entity, ent'[d].link # None
      PROVE  req'[ent'[d].link].status # "absent"
  <2>1. CASE ent'[d].link = ent[d].link
    BY <1>1, <2>1, <1>type, <1>inv, RequestStays DEF LinksExist, EntRow
  <2>2. ASSUME NEW s \in Slot, NEW r \in Req, SubmitCreate(s, r)
        PROVE  ent'[d].link = ent[d].link \/ (ent'[d].link = r /\ req'[r].status # "absent")
    BY <2>2, <1>type DEF SubmitCreate, EntRow, ReqRow
  <2>3. ent'[d].link = ent[d].link \/ \E s \in Slot, r \in Req : SubmitCreate(s, r)
    <3> DEFINE Kept == ent'[d].link = ent[d].link
    <3>1. ASSUME NEW s \in Slot, TakeEffect(s) \/ Fanout(s) \/ Schedule(s) PROVE Kept
      BY <3>1, <1>type DEF TakeEffect, Fanout, Schedule, EntRow
    <3>2. ASSUME NEW s \in Slot, FinaliseCommit(s) \/ WithdrawWrite(s) PROVE Kept
      BY <3>2, <1>type DEF FinaliseCommit, WithdrawWrite, EntRow
    <3>3. ASSUME NEW e \in Entity, Settle(e) PROVE Kept
      BY <3>3, <1>type DEF Settle, EntRow
    <3>4. ASSUME NEW w \in Worker, CallbackCommit(w) PROVE Kept
      BY <3>4, <1>type DEF CallbackCommit, EntRow
    <3>5. ASSUME NEW w \in Worker, PublishCommit(w) PROVE Kept
      BY <3>5, <1>type DEF PublishCommit, EntRow
    <3>6. CASE UNCHANGED ent
      BY <3>6
    <3> QED
      BY <3>1, <3>2, <3>3, <3>4, <3>5, <3>6, EntityWriters DEF WritesEntity
  <2> QED
    BY <2>1, <2>2, <2>3
<1>2. ASSUME NEW t \in Slot, api'[t].pc = "finalise", api'[t].req # None
      PROVE  req'[api'[t].req].status # "absent"
  <2>1. CASE api'[t] = api[t]
    BY <1>2, <2>1, <1>type, <1>inv, RequestStays DEF LinksExist, Handler
  <2>2. CASE FinaliseRead(t)
    <3>1. /\ api'[t].req = ent[api[t].ent].link
          /\ req' = req /\ api[t].ent \in Entity
      BY <1>2, <2>2, <1>type, <1>inv DEF FinaliseRead, Goto, Idle, Handling, References
    <3> QED
      BY <3>1, <1>2, <1>inv DEF LinksExist
  <2>3. api'[t] = api[t] \/ FinaliseRead(t)
    BY <1>2, <1>type, HandlerKeeps
  <2> QED
    BY <2>1, <2>2, <2>3
<1> QED
  BY <1>1, <1>2 DEF LinksExist

\* Decisions are final for announcements and invoices; the same step by step.
LEMMA DecisionStep ==
  ASSUME IndInv, Next, NEW q \in Req, Kind[Target[q]] # "payroll", req'[q].status # req[q].status
  PROVE  <<req[q].status, req'[q].status>> \in FinalDecisions
<1>req. /\ req \in [Req -> ReqRow] /\ req'[q].status # req[q].status
        /\ Kind[Target[q]] # "payroll"
  BY DEF IndInv, TypeOK
<1>1. ASSUME NEW s \in Slot, NEW r \in Req, SubmitCreate(s, r)
      PROVE  <<req[q].status, req'[q].status>> \in FinalDecisions
  BY <1>1, <1>req DEF SubmitCreate, ReqRow, FinalDecisions
<1>2. ASSUME NEW s \in Slot, FinaliseCommit(s)
      PROVE  <<req[q].status, req'[q].status>> \in FinalDecisions
  <2>1. q # api[s].req
    BY <1>2, <1>req, NoneAssumption DEF FinaliseCommit, IndInv, References
  <2> QED
    BY <2>1, <1>2, <1>req DEF FinaliseCommit
<1>3. ASSUME NEW s \in Slot, CancelLinkedRequest(s)
      PROVE  <<req[q].status, req'[q].status>> \in FinalDecisions
  BY <1>3, <1>req DEF CancelLinkedRequest, CanCancel, ReqRow, FinalDecisions
<1>4. ASSUME NEW s \in Slot, NEW r \in Req, NEW u \in User, Approve(s, r, u)
      PROVE  <<req[q].status, req'[q].status>> \in FinalDecisions
  BY <1>4, <1>req DEF Approve, CanDecide, ReqRow, FinalDecisions
<1>5. ASSUME NEW s \in Slot, MarkCallbackFailure(s)
      PROVE  <<req[q].status, req'[q].status>> \in FinalDecisions
  BY <1>5, <1>req DEF MarkCallbackFailure, ReqRow, FinalDecisions
<1>6. ASSUME NEW r \in Req, NEW u \in User, Reject(r, u)
      PROVE  <<req[q].status, req'[q].status>> \in FinalDecisions
  BY <1>6, <1>req DEF Reject, CanDecide, ReqRow, FinalDecisions
<1>7. ASSUME NEW r \in Req, NEW u \in User, Cancel(r, u)
      PROVE  <<req[q].status, req'[q].status>> \in FinalDecisions
  BY <1>7, <1>req DEF Cancel, CanCancel, ReqRow, FinalDecisions
<1>8. ASSUME NEW r \in Req, Age(r)
      PROVE  <<req[q].status, req'[q].status>> \in FinalDecisions
  BY <1>8, <1>req DEF Age, ReqRow, FinalDecisions
<1>9. ASSUME NEW s \in Slot, NEW r \in Req, RetryReset(s, r)
      PROVE  <<req[q].status, req'[q].status>> \in FinalDecisions
  BY <1>9, <1>req DEF RetryReset, ReqRow, FinalDecisions
<1>10. ASSUME NEW s \in Slot, RetryMarkFailed(s)
      PROVE  <<req[q].status, req'[q].status>> \in FinalDecisions
  BY <1>10, <1>req DEF RetryMarkFailed, NextRetry, Retrying, ReqRow, FinalDecisions
<1>11. ASSUME NEW r \in Req, ReconExhaust(r)
      PROVE  <<req[q].status, req'[q].status>> \in FinalDecisions
  BY <1>11, <1>req DEF ReconExhaust, ReconWrite, ReconNext, ReconIdle, ReqRow, FinalDecisions
<1>12. ASSUME NEW r \in Req, ReconUpdate(r)
      PROVE  <<req[q].status, req'[q].status>> \in FinalDecisions
  BY <1>12, <1>req DEF ReconUpdate, ReconWrite, ReconNext, ReconIdle, ReqRow, FinalDecisions
<1>13. ASSUME NEW r \in Req, ReconMarkFailed(r)
      PROVE  <<req[q].status, req'[q].status>> \in FinalDecisions
  BY <1>13, <1>req DEF ReconMarkFailed, ReconWrite, ReconNext, ReconIdle, ReqRow, FinalDecisions
<1>14. ASSUME NEW w \in Worker, CallbackCommit(w)
      PROVE  <<req[q].status, req'[q].status>> \in FinalDecisions
  <2>1. InFlight(wk[w].req) /\ wk[w].req \in Req
    BY <1>14 DEF CallbackCommit, InFlight, IndInv, References
  <2>2. req[wk[w].req].status \in {"approved", "executed"}
    BY <2>1 DEF IndInv, JobsOnlyForApproved, Approved
  <2>3. q = wk[w].req /\ req'[q].status = "executed"
    BY <1>14, <1>req DEF CallbackCommit, ReqRow
  <2> QED
    BY <2>2, <2>3, <1>req DEF FinalDecisions
<1>15. ASSUME UNCHANGED req
      PROVE  <<req[q].status, req'[q].status>> \in FinalDecisions
  BY <1>15, <1>req DEF ReqRow, FinalDecisions
<1> QED
  BY <1>1, <1>2, <1>3, <1>4, <1>5, <1>6, <1>7, <1>8, <1>9, <1>10, <1>11, <1>12, <1>13, <1>14,
     <1>15, RequestWriters
  DEF WritesRequest

\* Rows and what workers have read of them, together.
LEMMA EffectsStep ==
  ASSUME IndInv, Next
  PROVE  EffectsHappened'
BY RowEffectsStep, SeenEffectsStep DEF EffectsHappened

\* Only a callback or a finalisation marks a request executed, after the effect.
LEMMA ExecutedRequestStep ==
  ASSUME IndInv, Next, NEW q \in Req, req'[q].status = "executed"
  PROVE  ent[Target[q]].via # "none" \/ ent'[Target[q]].via # "none"
<1>req. /\ req \in [Req -> ReqRow]
        /\ req[q].status = "executed" => ent[Target[q]].via # "none"
        /\ req'[q].status = "executed"
  BY DEF IndInv, TypeOK, ExecutedTookEffect
<1>ent. ent \in [Entity -> EntRow] /\ Target[q] \in Entity
  BY TargetAssumption DEF IndInv, TypeOK
<1>1. ASSUME NEW s \in Slot, NEW r \in Req, SubmitCreate(s, r)
      PROVE  ent[Target[q]].via # "none" \/ ent'[Target[q]].via # "none"
  BY <1>1, <1>req DEF SubmitCreate, ReqRow
<1>2. ASSUME NEW s \in Slot, FinaliseCommit(s)
      PROVE  ent[Target[q]].via # "none" \/ ent'[Target[q]].via # "none"
  <2>1. CASE q = api[s].req
    <3>1. Target[q] = api[s].ent
      BY <2>1, <1>2, NoneAssumption DEF FinaliseCommit, IndInv, References
    <3> QED
      BY <3>1, <1>2, <1>ent DEF FinaliseCommit, EntRow
  <2>2. CASE q # api[s].req
    BY <2>2, <1>2, <1>req DEF FinaliseCommit
  <2> QED
    BY <2>1, <2>2
<1>3. ASSUME NEW s \in Slot, CancelLinkedRequest(s)
      PROVE  ent[Target[q]].via # "none" \/ ent'[Target[q]].via # "none"
  BY <1>3, <1>req DEF CancelLinkedRequest, CanCancel, ReqRow
<1>4. ASSUME NEW s \in Slot, NEW r \in Req, NEW u \in User, Approve(s, r, u)
      PROVE  ent[Target[q]].via # "none" \/ ent'[Target[q]].via # "none"
  BY <1>4, <1>req DEF Approve, CanDecide, ReqRow
<1>5. ASSUME NEW s \in Slot, MarkCallbackFailure(s)
      PROVE  ent[Target[q]].via # "none" \/ ent'[Target[q]].via # "none"
  BY <1>5, <1>req DEF MarkCallbackFailure, ReqRow
<1>6. ASSUME NEW r \in Req, NEW u \in User, Reject(r, u)
      PROVE  ent[Target[q]].via # "none" \/ ent'[Target[q]].via # "none"
  BY <1>6, <1>req DEF Reject, CanDecide, ReqRow
<1>7. ASSUME NEW r \in Req, NEW u \in User, Cancel(r, u)
      PROVE  ent[Target[q]].via # "none" \/ ent'[Target[q]].via # "none"
  BY <1>7, <1>req DEF Cancel, CanCancel, ReqRow
<1>8. ASSUME NEW r \in Req, Age(r)
      PROVE  ent[Target[q]].via # "none" \/ ent'[Target[q]].via # "none"
  BY <1>8, <1>req DEF Age, ReqRow
<1>9. ASSUME NEW s \in Slot, NEW r \in Req, RetryReset(s, r)
      PROVE  ent[Target[q]].via # "none" \/ ent'[Target[q]].via # "none"
  BY <1>9, <1>req DEF RetryReset, ReqRow
<1>10. ASSUME NEW s \in Slot, RetryMarkFailed(s)
      PROVE  ent[Target[q]].via # "none" \/ ent'[Target[q]].via # "none"
  BY <1>10, <1>req DEF RetryMarkFailed, NextRetry, Retrying, ReqRow
<1>11. ASSUME NEW r \in Req, ReconExhaust(r)
      PROVE  ent[Target[q]].via # "none" \/ ent'[Target[q]].via # "none"
  BY <1>11, <1>req DEF ReconExhaust, ReconWrite, ReconNext, ReconIdle, ReqRow
<1>12. ASSUME NEW r \in Req, ReconUpdate(r)
      PROVE  ent[Target[q]].via # "none" \/ ent'[Target[q]].via # "none"
  BY <1>12, <1>req DEF ReconUpdate, ReconWrite, ReconNext, ReconIdle, ReqRow
<1>13. ASSUME NEW r \in Req, ReconMarkFailed(r)
      PROVE  ent[Target[q]].via # "none" \/ ent'[Target[q]].via # "none"
  BY <1>13, <1>req DEF ReconMarkFailed, ReconWrite, ReconNext, ReconIdle, ReqRow
<1>14. ASSUME NEW w \in Worker, CallbackCommit(w)
      PROVE  ent[Target[q]].via # "none" \/ ent'[Target[q]].via # "none"
  <2>1. CASE q = wk[w].req
    <3>1. Target[q] = wk[w].ent
      BY <2>1, <1>14 DEF CallbackCommit, IndInv, References
    <3>2. CASE AlreadyDone(Kind[wk[w].ent], wk[w].seen)
      BY <3>1, <3>2, <1>14 DEF CallbackCommit, IndInv, EffectsHappened
    <3>3. CASE ent' = [ent EXCEPT ![wk[w].ent].status = Effective(Kind[wk[w].ent]),
                                  ![wk[w].ent].via = "callback"]
      BY <3>1, <3>3, <1>ent DEF EntRow
    <3>4. CASE req' = [req EXCEPT ![wk[w].req].cb = "skipped"]
      BY <3>4, <1>req DEF ReqRow
    <3> QED
      BY <3>2, <3>3, <3>4, <1>14 DEF CallbackCommit
  <2>2. CASE q # wk[w].req
    BY <2>2, <1>14, <1>req DEF CallbackCommit
  <2> QED
    BY <2>1, <2>2
<1>15. ASSUME UNCHANGED req
      PROVE  ent[Target[q]].via # "none" \/ ent'[Target[q]].via # "none"
  BY <1>15, <1>req DEF ReqRow
<1> QED
  BY <1>1, <1>2, <1>3, <1>4, <1>5, <1>6, <1>7, <1>8, <1>9, <1>10, <1>11, <1>12, <1>13, <1>14,
     <1>15, RequestWriters
  DEF WritesRequest

\* Hence an executed request has an entity in effect, now or from before.
LEMMA ExecutedStep ==
  ASSUME IndInv, Next
  PROVE  ExecutedTookEffect'
BY ExecutedRequestStep, EffectStays, TargetAssumption DEF ExecutedTookEffect

-----------------------------------------------------------------------------
\* The invariant holds of the empty system,
LEMMA IndInvInit == Init => IndInv
<1> SUFFICES ASSUME Init
             PROVE  IndInv
  OBVIOUS
<1>1. TypeOK
  BY NoneAssumption, AttemptsAssumption, BoundAssumption
  DEF Init, TypeOK, EntRow, ReqRow, Handler, Processing, Reconciling, Idle, Handling, Free, ReconIdle
<1>2. References
  BY NoneAssumption DEF Init, References, Idle, Handling, Free, ReconIdle
<1>3. JobsOnlyForApproved
  BY NoneAssumption DEF Init, JobsOnlyForApproved, InFlight, Idle, Handling, Free, ReconIdle
<1>4. ApprovedByOther /\ FourEyes /\ EffectsHappened /\ ExecutedTookEffect
  BY TargetAssumption
  DEF Init, ApprovedByOther, FourEyes, EffectsHappened, ExecutedTookEffect, Free
<1>5. LinksExist
  BY DEF Init, LinksExist, Idle, Handling
<1> QED
  BY <1>1, <1>2, <1>3, <1>4, <1>5 DEF IndInv

\* and every step of a user, a handler, a worker, a cron or a fault keeps it.
LEMMA IndInvStep == IndInv /\ [Next]_vars => IndInv'
<1> SUFFICES ASSUME IndInv, [Next]_vars
             PROVE  IndInv'
  OBVIOUS
<1>1. CASE Next
  BY <1>1, TypeStep, ReferencesStep, LinksStep, JobsStep, ApprovedByOtherStep, FourEyesStep,
     EffectsStep,
     ExecutedStep DEF IndInv
<1>2. CASE UNCHANGED vars
  BY <1>2
  DEF vars, IndInv, TypeOK, References, LinksExist, JobsOnlyForApproved, InFlight, Approved,
     ApprovedByOther, FourEyes, EffectsHappened, ExecutedTookEffect
<1> QED
  BY <1>1, <1>2

\* The rows, jobs and handlers of the approval engine keep together whatever the
\* order of decisions, retries, redeliveries and crashes.
THEOREM InvariantHolds == Spec => []IndInv
<1>1. Init => IndInv
  BY IndInvInit
<1>2. IndInv /\ [Next]_vars => IndInv'
  BY IndInvStep
<1> QED
  BY <1>1, <1>2, PTL DEF Spec

\* Rows, jobs and handlers keep their types, and the attempts counted by
\* reconciliation never pass MAX_CALLBACK_ATTEMPTS.
THEOREM TypeCorrect == Spec => []TypeOK
<1>1. IndInv => TypeOK
  BY DEF IndInv
<1> QED
  BY <1>1, InvariantHolds, PTL

\* No callback job exists, anywhere between the decision, Redis and a worker, for
\* a request that was not approved by somebody else.
THEOREM JobsAreApproved == Spec => []JobsOnlyForApproved
<1>1. IndInv => JobsOnlyForApproved
  BY DEF IndInv
<1> QED
  BY <1>1, InvariantHolds, PTL

\* What a callback executes, somebody other than the requester has approved.
THEOREM FourEyesHold == Spec => []FourEyes
<1>1. IndInv => FourEyes
  BY DEF IndInv
<1> QED
  BY <1>1, InvariantHolds, PTL

\* A request reported as executed has taken effect, self-healed ones included.
THEOREM ExecutedIsReal == Spec => []ExecutedTookEffect
<1>1. IndInv => ExecutedTookEffect
  BY DEF IndInv
<1> QED
  BY <1>1, InvariantHolds, PTL

\* Once decided, a request of an announcement or an invoice is never decided
\* again, and what was not approved is never executed.
THEOREM DecisionsStand == Spec => DecisionsAreFinal
<1>1. IndInv /\ [Next]_vars =>
        [\A r \in Req : (Kind[Target[r]] # "payroll" /\ req'[r].status # req[r].status) =>
           <<req[r].status, req'[r].status>> \in FinalDecisions]_vars
  BY DecisionStep
<1> QED
  BY <1>1, InvariantHolds, PTL DEF Spec, DecisionsAreFinal

-----------------------------------------------------------------------------
(* As long as nobody overlaps on a row: see SerialInv.                        *)

\* The step that changed the row of e, and what it made of it.
LEMMA RowChange ==
  ASSUME IndInv, Next, NEW e \in Entity, ent'[e] # ent[e]
  PROVE  \/ \E s \in Slot, r \in Req :
              /\ SubmitCreate(s, r) /\ api[s].ent = e
              /\ ent'[e] = [ent[e] EXCEPT !.status = "pending_approval", !.link = r]
         \/ \E s \in Slot :
              /\ TakeEffect(s) /\ api[s].ent = e
              /\ ent'[e] = [ent[e] EXCEPT !.status = Effective(Kind[e]), !.via = "direct"]
         \/ \E s \in Slot :
              Fanout(s) /\ api[s].ent = e /\ ent'[e] = [ent[e] EXCEPT !.notified = TRUE]
         \/ \E s \in Slot :
              Schedule(s) /\ api[s].ent = e /\ ent'[e] = [ent[e] EXCEPT !.status = "scheduled"]
         \/ \E s \in Slot, via \in {"direct", "refinalise"} :
              /\ FinaliseCommit(s) /\ api[s].ent = e
              /\ ent'[e] = [ent[e] EXCEPT !.status = "finalised", !.via = via]
         \/ \E s \in Slot :
              /\ WithdrawWrite(s) /\ api[s].ent = e
              /\ ent'[e] = [ent[e] EXCEPT !.status = Withdrawn(Kind[e])]
         \/ Settle(e) /\ ent'[e] = [ent[e] EXCEPT !.status = "settled"]
         \/ \E w \in Worker :
              /\ CallbackCommit(w) /\ wk[w].ent = e /\ wk[w].seen = "pending_approval"
              /\ ent'[e] = [ent[e] EXCEPT !.status = Effective(Kind[e]), !.via = "callback"]
         \/ \E w \in Worker :
              /\ PublishCommit(w) /\ wk[w].ent = e /\ wk[w].seen \in {"scheduled", "draft"}
              /\ ent'[e] = [ent[e] EXCEPT !.status = "published", !.via = "direct",
                                          !.notified = TRUE]
<1>ent. ent \in [Entity -> EntRow] /\ ent'[e] # ent[e]
  BY DEF IndInv, TypeOK
<1>1. ASSUME NEW s \in Slot, NEW r \in Req, SubmitCreate(s, r)
      PROVE  /\ api[s].ent = e
             /\ ent'[e] = [ent[e] EXCEPT !.status = "pending_approval", !.link = r]
  BY <1>1, <1>ent DEF SubmitCreate
<1>2. ASSUME NEW s \in Slot, TakeEffect(s)
      PROVE  /\ api[s].ent = e
             /\ ent'[e] = [ent[e] EXCEPT !.status = Effective(Kind[e]), !.via = "direct"]
  BY <1>2, <1>ent DEF TakeEffect
<1>3. ASSUME NEW s \in Slot, Fanout(s)
      PROVE  api[s].ent = e /\ ent'[e] = [ent[e] EXCEPT !.notified = TRUE]
  BY <1>3, <1>ent DEF Fanout
<1>4. ASSUME NEW s \in Slot, Schedule(s)
      PROVE  api[s].ent = e /\ ent'[e] = [ent[e] EXCEPT !.status = "scheduled"]
  BY <1>4, <1>ent DEF Schedule
<1>5. ASSUME NEW s \in Slot, FinaliseCommit(s)
      PROVE  /\ api[s].ent = e
             /\ \E via \in {"direct", "refinalise"} :
                  ent'[e] = [ent[e] EXCEPT !.status = "finalised", !.via = via]
  <2>1. PICK via \in {"direct", "refinalise"} :
          ent' = [ent EXCEPT ![api[s].ent].status = "finalised", ![api[s].ent].via = via]
    BY <1>5 DEF FinaliseCommit
  <2> QED
    BY <2>1, <1>ent
<1>6. ASSUME NEW s \in Slot, WithdrawWrite(s)
      PROVE  api[s].ent = e /\ ent'[e] = [ent[e] EXCEPT !.status = Withdrawn(Kind[e])]
  BY <1>6, <1>ent DEF WithdrawWrite
<1>7. ASSUME NEW d \in Entity, Settle(d)
      PROVE  d = e /\ ent'[e] = [ent[e] EXCEPT !.status = "settled"]
  BY <1>7, <1>ent DEF Settle
<1>8. ASSUME NEW w \in Worker, CallbackCommit(w)
      PROVE  /\ wk[w].ent = e /\ wk[w].seen = "pending_approval"
             /\ ent'[e] = [ent[e] EXCEPT !.status = Effective(Kind[e]), !.via = "callback"]
  BY <1>8, <1>ent DEF CallbackCommit, Executable
<1>9. ASSUME NEW w \in Worker, PublishCommit(w)
      PROVE  /\ wk[w].ent = e /\ wk[w].seen \in {"scheduled", "draft"}
             /\ ent'[e] = [ent[e] EXCEPT !.status = "published", !.via = "direct",
                                         !.notified = TRUE]
  BY <1>9, <1>ent DEF PublishCommit
<1>10. WritesEntity
  BY <1>ent, EntityWriters
<1> QED
  BY <1>1, <1>2, <1>3, <1>4, <1>5, <1>6, <1>7, <1>8, <1>9, <1>10 DEF WritesEntity

\* What a row of SerialInv goes through: the edges of its state machine, each
\* taken by the one step that the code has for it.
Moves(e) ==
  LET old == ent[e]
      new == ent'[e]
      k == Kind[e]
  IN \/ new.status = old.status /\ new.link = old.link /\ new.via = old.via
     \/ \E s \in Slot, r \in Req :
          /\ SubmitCreate(s, r) /\ api[s].ent = e
          /\ old.status = "draft" /\ new.status = "pending_approval"
          /\ new.link = r /\ new.via = old.via
     \/ \E s \in Slot :
          /\ TakeEffect(s) /\ api[s].ent = e /\ k # "payroll"
          /\ old.status = "draft" /\ new.status = Effective(k)
          /\ new.link = old.link /\ new.via = "direct"
     \/ \E s \in Slot :
          /\ Schedule(s) /\ api[s].ent = e /\ k = "announcement"
          /\ old.status = "draft" /\ new.status = "scheduled"
          /\ new.link = old.link /\ new.via = old.via
     \/ \E s \in Slot :
          /\ FinaliseCommit(s) /\ api[s].ent = e /\ k = "payroll"
          /\ old.status \in {"draft", "pending_approval"} /\ new.status = "finalised"
          /\ new.link = old.link /\ new.via # "none" /\ new.via # "callback"
     \/ \E s \in Slot :
          /\ WithdrawWrite(s) /\ api[s].ent = e
          /\ old.status \in WithdrawableFrom(k) /\ new.status = Withdrawn(k)
          /\ (k = "invoice" /\ old.status = "pending_approval")
               => req[old.link].status = "cancelled"
          /\ new.link = old.link /\ new.via = old.via
     \/ /\ Settle(e) /\ k = "invoice"
        /\ old.status = "issued" /\ new.status = "settled"
        /\ new.link = old.link /\ new.via = old.via
     \/ \E w \in Worker :
          /\ CallbackCommit(w) /\ wk[w].ent = e
          /\ old.status = "pending_approval" /\ new.status = Effective(k)
          /\ new.link = old.link /\ new.via = "callback"
     \/ \E w \in Worker :
          /\ PublishCommit(w) /\ wk[w].ent = e /\ k = "announcement"
          /\ old.status = "scheduled" /\ new.status = "published"
          /\ new.link = old.link /\ new.via = "direct"

LEMMA RowMoves ==
  ASSUME IndInv, SerialInv, Next, NEW e \in Entity
  PROVE  Moves(e)
<1>ent. /\ ent \in [Entity -> EntRow] /\ api \in [Slot -> Handler] /\ ent[e] \in EntRow
        /\ References /\ HandlersUpToDate /\ WorkersUpToDate
  BY DEF IndInv, TypeOK, SerialInv
<1>0. CASE ent'[e] = ent[e]
  BY <1>0 DEF Moves
<1>1. ASSUME NEW s \in Slot, NEW r \in Req, SubmitCreate(s, r), api[s].ent = e,
             ent'[e] = [ent[e] EXCEPT !.status = "pending_approval", !.link = r]
      PROVE  Moves(e)
  <2>1. ent[e].status = "draft"
    BY <1>1, <1>ent DEF SubmitCreate, HandlersUpToDate
  <2>2. /\ ent'[e].status = "pending_approval" /\ ent'[e].link = r
        /\ ent'[e].via = ent[e].via
    BY <1>1, <1>ent DEF EntRow
  <2> QED
    BY <1>1, <2>1, <2>2 DEF Moves
<1>2. ASSUME NEW s \in Slot, TakeEffect(s), api[s].ent = e,
             ent'[e] = [ent[e] EXCEPT !.status = Effective(Kind[e]), !.via = "direct"]
      PROVE  Moves(e)
  <2>1. ent[e].status = "draft" /\ Kind[e] # "payroll"
    BY <1>2, <1>ent DEF TakeEffect, HandlersUpToDate
  <2>2. /\ ent'[e].status = Effective(Kind[e]) /\ ent'[e].link = ent[e].link
        /\ ent'[e].via = "direct"
    BY <1>2, <1>ent DEF EntRow
  <2> QED
    BY <1>2, <2>1, <2>2 DEF Moves
<1>3. ASSUME NEW s \in Slot, Fanout(s), api[s].ent = e,
             ent'[e] = [ent[e] EXCEPT !.notified = TRUE]
      PROVE  Moves(e)
  BY <1>3, <1>ent DEF Moves, EntRow
<1>4. ASSUME NEW s \in Slot, Schedule(s), api[s].ent = e,
             ent'[e] = [ent[e] EXCEPT !.status = "scheduled"]
      PROVE  Moves(e)
  <2>1. ent[e].status = "draft" /\ Kind[e] = "announcement"
    BY <1>4, <1>ent DEF Schedule, HandlersUpToDate
  <2>2. /\ ent'[e].status = "scheduled" /\ ent'[e].link = ent[e].link
        /\ ent'[e].via = ent[e].via
    BY <1>4, <1>ent DEF EntRow
  <2> QED
    BY <1>4, <2>1, <2>2 DEF Moves
<1>5. ASSUME NEW s \in Slot, NEW via \in {"direct", "refinalise"}, FinaliseCommit(s),
             api[s].ent = e, ent'[e] = [ent[e] EXCEPT !.status = "finalised", !.via = via]
      PROVE  Moves(e)
  <2>1. ent[e].status \in {"draft", "pending_approval"} /\ Kind[e] = "payroll"
    BY <1>5, <1>ent DEF FinaliseCommit, HandlersUpToDate, References
  <2>2. /\ ent'[e].status = "finalised" /\ ent'[e].link = ent[e].link
        /\ ent'[e].via # "none" /\ ent'[e].via # "callback"
    BY <1>5, <1>ent DEF EntRow
  <2> QED
    BY <1>5, <2>1, <2>2 DEF Moves
<1>6. ASSUME NEW s \in Slot, WithdrawWrite(s), api[s].ent = e,
             ent'[e] = [ent[e] EXCEPT !.status = Withdrawn(Kind[e])]
      PROVE  Moves(e)
  <2>1. /\ ent[e].status \in WithdrawableFrom(Kind[e])
        /\ (Kind[e] = "invoice" /\ ent[e].status = "pending_approval")
             => req[ent[e].link].status = "cancelled"
    BY <1>6, <1>ent DEF WithdrawWrite, HandlersUpToDate
  <2>2. /\ ent'[e].status = Withdrawn(Kind[e]) /\ ent'[e].link = ent[e].link
        /\ ent'[e].via = ent[e].via
    BY <1>6, <1>ent DEF EntRow
  <2> QED
    BY <1>6, <2>1, <2>2 DEF Moves
<1>7. ASSUME Settle(e), ent'[e] = [ent[e] EXCEPT !.status = "settled"]
      PROVE  Moves(e)
  <2>1. /\ ent'[e].status = "settled" /\ ent'[e].link = ent[e].link
        /\ ent'[e].via = ent[e].via /\ Kind[e] = "invoice" /\ ent[e].status = "issued"
    BY <1>7, <1>ent DEF EntRow, Settle
  <2> QED
    BY <1>7, <2>1 DEF Moves
<1>8. ASSUME NEW w \in Worker, CallbackCommit(w), wk[w].ent = e, wk[w].seen = "pending_approval",
             ent'[e] = [ent[e] EXCEPT !.status = Effective(Kind[e]), !.via = "callback"]
      PROVE  Moves(e)
  <2>1. ent[e].status = "pending_approval"
    BY <1>8, <1>ent DEF CallbackCommit, WorkersUpToDate
  <2>2. /\ ent'[e].status = Effective(Kind[e]) /\ ent'[e].link = ent[e].link
        /\ ent'[e].via = "callback"
    BY <1>8, <1>ent DEF EntRow
  <2> QED
    BY <1>8, <2>1, <2>2 DEF Moves
<1>9. ASSUME NEW w \in Worker, PublishCommit(w), wk[w].ent = e,
             wk[w].seen \in {"scheduled", "draft"},
             ent'[e] = [ent[e] EXCEPT !.status = "published", !.via = "direct",
                                      !.notified = TRUE]
      PROVE  Moves(e)
  <2>1. ent[e].status = "scheduled" /\ Kind[e] = "announcement"
    BY <1>9, <1>ent DEF PublishCommit, WorkersUpToDate
  <2>2. /\ ent'[e].status = "published" /\ ent'[e].link = ent[e].link
        /\ ent'[e].via = "direct"
    BY <1>9, <1>ent DEF EntRow
  <2> QED
    BY <1>9, <2>1, <2>2 DEF Moves
<1> QED
  BY <1>0, <1>1, <1>2, <1>3, <1>4, <1>5, <1>6, <1>7, <1>8, <1>9, RowChange

\* A request appears with the submission that opens it.
LEMMA RequestAppears ==
  ASSUME IndInv, Next, NEW q \in Req, req[q].status = "absent", req'[q].status # "absent"
  PROVE  \E s \in Slot : SubmitCreate(s, q)
<1>req. /\ req \in [Req -> ReqRow] /\ req[q].status = "absent" /\ req'[q].status # "absent"
        /\ LinksExist
  BY DEF IndInv, TypeOK
<1>1. ASSUME NEW s \in Slot, NEW r \in Req, SubmitCreate(s, r)
      PROVE  r = q
  BY <1>1, <1>req DEF SubmitCreate, ReqRow
<1>2. ASSUME NEW s \in Slot, FinaliseCommit(s)
      PROVE  FALSE
  BY <1>2, <1>req DEF FinaliseCommit, LinksExist, ReqRow
<1>3. ASSUME NEW s \in Slot, CancelLinkedRequest(s)
      PROVE  FALSE
  BY <1>3, <1>req DEF CancelLinkedRequest, CanCancel, ReqRow
<1>4. ASSUME NEW s \in Slot, NEW r \in Req, NEW u \in User, Approve(s, r, u)
      PROVE  FALSE
  BY <1>4, <1>req DEF Approve, CanDecide, ReqRow
<1>5. ASSUME NEW s \in Slot, MarkCallbackFailure(s)
      PROVE  FALSE
  BY <1>5, <1>req DEF MarkCallbackFailure, ReqRow
<1>6. ASSUME NEW r \in Req, NEW u \in User, Reject(r, u)
      PROVE  FALSE
  BY <1>6, <1>req DEF Reject, CanDecide, ReqRow
<1>7. ASSUME NEW r \in Req, NEW u \in User, Cancel(r, u)
      PROVE  FALSE
  BY <1>7, <1>req DEF Cancel, CanCancel, ReqRow
<1>8. ASSUME NEW r \in Req, Age(r)
      PROVE  FALSE
  BY <1>8, <1>req DEF Age, ReqRow
<1>9. ASSUME NEW s \in Slot, NEW r \in Req, RetryReset(s, r)
      PROVE  FALSE
  BY <1>9, <1>req DEF RetryReset, ReqRow
<1>10. ASSUME NEW s \in Slot, RetryMarkFailed(s)
      PROVE  FALSE
  BY <1>10, <1>req DEF RetryMarkFailed, NextRetry, Retrying, ReqRow
<1>11. ASSUME NEW r \in Req, ReconExhaust(r)
      PROVE  FALSE
  BY <1>11, <1>req DEF ReconExhaust, ReconWrite, ReconNext, ReconIdle, ReqRow
<1>12. ASSUME NEW r \in Req, ReconUpdate(r)
      PROVE  FALSE
  BY <1>12, <1>req DEF ReconUpdate, ReconWrite, ReconNext, ReconIdle, ReqRow
<1>13. ASSUME NEW r \in Req, ReconMarkFailed(r)
      PROVE  FALSE
  BY <1>13, <1>req DEF ReconMarkFailed, ReconWrite, ReconNext, ReconIdle, ReqRow
<1>14. ASSUME NEW w \in Worker, CallbackCommit(w)
      PROVE  FALSE
  <2>1. InFlight(wk[w].req) /\ wk[w].req \in Req
    BY <1>14 DEF CallbackCommit, InFlight, IndInv, References
  <2>2. wk[w].req # q
    BY <2>1, <1>req DEF IndInv, JobsOnlyForApproved, Approved
  <2> QED
    BY <1>14, <2>2, <1>req DEF CallbackCommit, ReqRow
<1>15. ~UNCHANGED req
  BY <1>req
<1> QED
  BY <1>1, <1>2, <1>3, <1>4, <1>5, <1>6, <1>7, <1>8, <1>9, <1>10, <1>11, <1>12, <1>13, <1>14,
     <1>15, RequestWriters
  DEF WritesRequest

\* The request of a callback was approved and is the one its entity is linked to.
LEMMA CallbackRequest ==
  ASSUME IndInv, SerialInv, NEW w \in Worker, wk[w].job = "callback"
  PROVE  /\ wk[w].req \in Req /\ Target[wk[w].req] = wk[w].ent
         /\ req[wk[w].req].status \in {"approved", "executed"}
         /\ ent[wk[w].ent].link = wk[w].req
         /\ ent[wk[w].ent].status \notin {"draft", "scheduled"}
<1>1. InFlight(wk[w].req) /\ wk[w].req \in Req /\ wk[w].ent = Target[wk[w].req]
  BY DEF InFlight, IndInv, References
<1>2. req[wk[w].req].status \in {"approved", "executed"}
  BY <1>1 DEF IndInv, JobsOnlyForApproved, Approved
<1> QED
  BY <1>1, <1>2 DEF SerialInv, RowsAgree

LEMMA KindOf ==
  ASSUME NEW e \in Entity
  PROVE  /\ Kind[e] \in {"announcement", "invoice", "payroll"}
         /\ Kind[e] = "announcement" =>
              /\ Effective(Kind[e]) = "published" /\ Withdrawn(Kind[e]) = "archived"
              /\ WithdrawableFrom(Kind[e]) = {"published", "draft"}
              /\ StatusOf(Kind[e]) = {"draft", "pending_approval", "published", "archived", "scheduled"}
         /\ Kind[e] = "invoice" =>
              /\ Effective(Kind[e]) = "issued" /\ Withdrawn(Kind[e]) = "cancelled"
              /\ WithdrawableFrom(Kind[e]) = {"draft", "pending_approval"}
              /\ StatusOf(Kind[e]) = {"draft", "pending_approval", "issued", "cancelled", "settled"}
         /\ Kind[e] = "payroll" =>
              /\ Effective(Kind[e]) = "finalised" /\ Withdrawn(Kind[e]) = "cancelled"
              /\ WithdrawableFrom(Kind[e]) = {"draft", "pending_approval"}
              /\ StatusOf(Kind[e]) = {"draft", "pending_approval", "finalised", "cancelled"}
<1>1. Kind[e] \in {"announcement", "invoice", "payroll"}
  BY KindAssumption
<1> QED
  BY <1>1 DEF Effective, Withdrawn, WithdrawableFrom, StatusOf

\* The columns of a row that the step changed still agree.
LEMMA RowStep ==
  ASSUME IndInv, SerialInv, Next, NEW e \in Entity
  PROVE  /\ ent'[e].status \in StatusOf(Kind[e])
         /\ ent'[e].status \in {"draft", "scheduled", "pending_approval"} => ent'[e].via = "none"
         /\ ent'[e].status = "pending_approval" => ent'[e].link # None
<1>1. /\ ent[e].status \in StatusOf(Kind[e])
      /\ ent[e].status \in {"draft", "scheduled", "pending_approval"} => ent[e].via = "none"
      /\ ent[e].status = "pending_approval" => ent[e].link # None
  BY DEF SerialInv, RowsAgree
<1>2. Moves(e)
  BY RowMoves
<1>3. \A r \in Req : r # None
  BY NoneAssumption
<1> QED
  BY <1>1, <1>2, <1>3, KindOf DEF Moves

LEMMA RequestRowStep ==
  ASSUME IndInv, SerialInv, Next, NEW r \in Req, req'[r].status # "absent"
  PROVE  /\ ent'[Target[r]].link = r
         /\ ent'[Target[r]].status \notin {"draft", "scheduled"}
         /\ (Kind[Target[r]] = "invoice" /\ req'[r].status = "pending_approval")
              => ent'[Target[r]].status = "pending_approval"
<1> DEFINE e == Target[r]
<1>type. ent \in [Entity -> EntRow] /\ e \in Entity /\ req'[r].status # "absent"
  BY TargetAssumption DEF IndInv, TypeOK
<1>1. CASE req[r].status = "absent"
  <2>1. PICK s \in Slot : SubmitCreate(s, r)
    BY <1>1, <1>type, RequestAppears
  <2>2. ent' = [ent EXCEPT ![e].status = "pending_approval", ![e].link = r]
    BY <2>1 DEF SubmitCreate
  <2> HIDE DEF e
  <2>3. ent'[e].status = "pending_approval" /\ ent'[e].link = r
    BY <2>2, <1>type DEF EntRow
  <2> USE DEF e
  <2> QED
    BY <2>3
<1>2. CASE req[r].status # "absent"
  <2>1. /\ ent[e].link = r /\ ent[e].status \notin {"draft", "scheduled"}
        /\ (Kind[e] = "invoice" /\ req[r].status = "pending_approval")
             => ent[e].status = "pending_approval"
    BY <1>2 DEF SerialInv, RowsAgree
  <2>2. Kind[e] = "invoice" /\ req'[r].status = "pending_approval"
          => req[r].status = "pending_approval"
    BY <1>2, DecisionStep DEF FinalDecisions
  <2>3. Moves(e)
    BY <1>type, RowMoves
  <2>4. ASSUME NEW w \in Worker, CallbackCommit(w), wk[w].ent = e
        PROVE  req[r].status # "pending_approval"
    BY <2>4, <2>1, CallbackRequest DEF CallbackCommit
  <2> HIDE DEF e
  <2>5. ent'[e].link = r /\ ent'[e].status \notin {"draft", "scheduled"}
    BY <2>1, <2>3, <1>type, KindOf DEF Moves
  <2>6. (Kind[e] = "invoice" /\ req'[r].status = "pending_approval")
          => ent'[e].status = "pending_approval"
    BY <2>1, <2>2, <2>3, <2>4, <1>type, KindOf DEF Moves
  <2> QED
    BY <2>5, <2>6 DEF e
<1> QED
  BY <1>1, <1>2

LEMMA RowsAgreeStep ==
  ASSUME IndInv, SerialInv, Next
  PROVE  RowsAgree'
BY RowStep, RequestRowStep DEF RowsAgree

\* Delayed publish jobs.
LEMMA DelayedStep ==
  ASSUME IndInv, SerialInv, Next
  PROVE  DelayedWereScheduled'
<1>inv. /\ delayed \subseteq Entity /\ References /\ DelayedWereScheduled
        /\ HandlersUpToDate /\ WorkersUpToDate
  BY DEF IndInv, TypeOK, SerialInv
<1> SUFFICES ASSUME NEW e \in Entity, e \in delayed'
             PROVE  Kind[e] = "announcement" /\ ent'[e].status \notin {"draft", "pending_approval"}
  BY DEF DelayedWereScheduled
<1>1. CASE e \in delayed
  <2>1. Kind[e] = "announcement" /\ ent[e].status \notin {"draft", "pending_approval"}
    BY <1>1, <1>inv DEF DelayedWereScheduled
  <2> QED
    BY <2>1, RowMoves, KindOf DEF Moves
<1>2. ASSUME NEW s \in Slot, ScheduleJob(s), api[s].ent = e
      PROVE  Kind[e] = "announcement" /\ ent'[e].status \notin {"draft", "pending_approval"}
  BY <1>2, <1>inv DEF ScheduleJob, HandlersUpToDate
<1>3. ASSUME NEW w \in Worker, wk[w].job = "publish", wk[w].ent = e, UNCHANGED ent
      PROVE  Kind[e] = "announcement" /\ ent'[e].status \notin {"draft", "pending_approval"}
  BY <1>3, <1>inv DEF WorkersUpToDate
<1>4. CASE e \notin delayed
  <2> DEFINE Source == \/ \E s \in Slot : ScheduleJob(s) /\ api[s].ent = e
                       \/ \E w \in Worker : wk[w].job = "publish" /\ wk[w].ent = e /\ UNCHANGED ent
  <2>1. ASSUME UserStep PROVE Source
    BY <1>4, <2>1
    DEF UserStep, SubmitRead, RefinaliseRead, WithdrawRead, Approve, Reject,
        Cancel, RetryCallback, StartRetry, BulkRetryCallbacks, Settle, Toggle
  <2>2. ASSUME NEW s \in Slot, ApiStep(s) PROVE Source
    <3>1. ASSUME ScheduleJob(s) PROVE Source
      BY <3>1, <1>4 DEF ScheduleJob
    <3>2. CASE ~ScheduleJob(s)
      BY <1>4, <2>2, <3>2
      DEF ApiStep, SubmitCheck, TakeEffect, Fanout, Schedule, FinaliseRead, FinaliseCommit,
          FinaliseConflict, CancelLinkedRequest, WithdrawWrite, ApproveEnqueue,
          MarkCallbackFailure, RetryEnqueue, RetryMarkFailed, SubmitCreate, RetryReset
    <3> QED
      BY <3>1, <3>2
  <2>3. ASSUME ReconStep PROVE Source
    BY <1>4, <2>3
    DEF ReconStep, ReconScan, ReconExhaust, ReconWrite, ReconEnqueue, ReconUpdate, ReconMarkFailed
  <2>4. ASSUME NEW w \in Worker, WorkerStep(w) PROVE Source
    <3>1. ASSUME CallbackConflict(w) PROVE Source
      BY <3>1, <1>4 DEF CallbackConflict, Redeliver
    <3> QED
      BY <3>1, <1>4, <2>4 DEF WorkerStep, CallbackCommit, PublishCommit
  <2>5. ASSUME NEW r \in Req, DeliverCallback(r) PROVE Source
    BY <1>4, <2>5 DEF DeliverCallback, CallbackSkipped, CallbackRead
  <2>6. ASSUME NEW d \in Entity, DeliverPublish(d) PROVE Source
    BY <1>4, <2>6 DEF DeliverPublish, PublishRead
  <2>7. ASSUME FaultStep PROVE Source
    <3>1. ASSUME NEW w \in Worker, WorkerFails(w) PROVE Source
      <4>1. wk[w].job \in {"none", "callback", "publish"}
        BY DEF IndInv, TypeOK, Processing
      <4> QED
        BY <3>1, <4>1, <1>4 DEF WorkerFails, Redeliver
    <3> QED
      BY <3>1, <1>4, <2>7
      DEF FaultStep, ApproveEnqueueFails, RetryEnqueueFails, ApiCrash, ReconEnqueueFails,
          ReconCrash, JobStalls
  <2>8. ASSUME NEW r \in Req, Age(r) PROVE Source
    BY <1>4, <2>8 DEF Age
  <2>9. Source
    BY <2>1, <2>2, <2>3, <2>4, <2>5, <2>6, <2>7, <2>8 DEF Next
  <2> QED
    BY <2>9, <1>2, <1>3
<1> QED
  BY <1>1, <1>4

\* A handler gets to the point of writing its row only by reading it first.
LEMMA HandlerMoves ==
  ASSUME IndInv, Next, NEW t \in Slot, api'[t] # api[t],
         api'[t].pc \in {"submit", "create", "direct", "finalise", "delay", "cancel_request",
                         "withdraw"}
  PROVE  \/ \E e \in Entity, u \in User :
              SubmitRead(t, e, u) \/ RefinaliseRead(t, e, u) \/ WithdrawRead(t, e, u)
         \/ SubmitCheck(t) \/ Schedule(t) \/ FinaliseRead(t) \/ CancelLinkedRequest(t)
<1> DEFINE Moved == \/ \E e \in Entity, u \in User :
                         SubmitRead(t, e, u) \/ RefinaliseRead(t, e, u) \/ WithdrawRead(t, e, u)
                    \/ SubmitCheck(t) \/ Schedule(t) \/ FinaliseRead(t) \/ CancelLinkedRequest(t)
<1>type. /\ api \in [Slot -> Handler] /\ api'[t] # api[t]
         /\ api'[t].pc \in {"submit", "create", "direct", "finalise", "delay",
                            "cancel_request", "withdraw"}
  BY DEF IndInv, TypeOK
<1>1. ASSUME NEW s \in Slot, NEW e \in Entity, NEW u \in User, SubmitRead(s, e, u)
      PROVE  Moved
  <2>1. s = t
    BY <1>1, <1>type DEF SubmitRead, Goto
  <2> QED
    BY <1>1, <2>1
<1>2. ASSUME NEW s \in Slot, SubmitCheck(s)
      PROVE  Moved
  <2>1. s = t
    BY <1>2, <1>type DEF SubmitCheck, Goto
  <2> QED
    BY <1>2, <2>1
<1>3. ASSUME NEW s \in Slot, NEW r \in Req, SubmitCreate(s, r)
      PROVE  Moved
  BY <1>3, <1>type DEF SubmitCreate, Goto, Idle, Handling
<1>4. ASSUME NEW s \in Slot, TakeEffect(s)
      PROVE  Moved
  BY <1>4, <1>type DEF TakeEffect, Goto, Idle, Handling
<1>5. ASSUME NEW s \in Slot, Fanout(s)
      PROVE  Moved
  BY <1>5, <1>type DEF Fanout, Goto, Idle, Handling
<1>6. ASSUME NEW s \in Slot, Schedule(s)
      PROVE  Moved
  <2>1. s = t
    BY <1>6, <1>type DEF Schedule, Goto
  <2> QED
    BY <1>6, <2>1
<1>7. ASSUME NEW s \in Slot, ScheduleJob(s)
      PROVE  Moved
  BY <1>7, <1>type DEF ScheduleJob, Goto, Idle, Handling
<1>8. ASSUME NEW s \in Slot, NEW e \in Entity, NEW u \in User, RefinaliseRead(s, e, u)
      PROVE  Moved
  <2>1. s = t
    BY <1>8, <1>type DEF RefinaliseRead, Goto
  <2> QED
    BY <1>8, <2>1
<1>9. ASSUME NEW s \in Slot, FinaliseRead(s)
      PROVE  Moved
  <2>1. s = t
    BY <1>9, <1>type DEF FinaliseRead, Goto
  <2> QED
    BY <1>9, <2>1
<1>10. ASSUME NEW s \in Slot, FinaliseCommit(s)
      PROVE  Moved
  BY <1>10, <1>type DEF FinaliseCommit, Goto, Idle, Handling
<1>11. ASSUME NEW s \in Slot, FinaliseConflict(s)
      PROVE  Moved
  BY <1>11, <1>type DEF FinaliseConflict, Goto, Idle, Handling
<1>12. ASSUME NEW s \in Slot, NEW e \in Entity, NEW u \in User, WithdrawRead(s, e, u)
      PROVE  Moved
  <2>1. s = t
    BY <1>12, <1>type DEF WithdrawRead, Goto
  <2> QED
    BY <1>12, <2>1
<1>13. ASSUME NEW s \in Slot, CancelLinkedRequest(s)
      PROVE  Moved
  <2>1. s = t
    BY <1>13, <1>type DEF CancelLinkedRequest, Goto
  <2> QED
    BY <1>13, <2>1
<1>14. ASSUME NEW s \in Slot, WithdrawWrite(s)
      PROVE  Moved
  BY <1>14, <1>type DEF WithdrawWrite, Goto, Idle, Handling
<1>15. ASSUME NEW s \in Slot, NEW r \in Req, NEW u \in User, Approve(s, r, u)
      PROVE  Moved
  BY <1>15, <1>type DEF Approve, Goto, Idle, Handling, CanDecide
<1>16. ASSUME NEW s \in Slot, ApproveEnqueue(s)
      PROVE  Moved
  BY <1>16, <1>type DEF ApproveEnqueue, Goto, Idle, Handling, Enqueue
<1>17. ASSUME NEW s \in Slot, ApproveEnqueueFails(s)
      PROVE  Moved
  BY <1>17, <1>type DEF ApproveEnqueueFails, Goto, Idle, Handling, Enqueue
<1>18. ASSUME NEW s \in Slot, MarkCallbackFailure(s)
      PROVE  Moved
  BY <1>18, <1>type DEF MarkCallbackFailure, Goto, Idle, Handling
<1>19. ASSUME NEW s \in Slot, NEW r \in Req, RetryCallback(s, r)
      PROVE  Moved
  BY <1>19, <1>type DEF RetryCallback, Goto, Idle, Handling, StartRetry, Retrying
<1>20. ASSUME NEW s \in Slot, NEW f, BulkRetryCallbacks(s, f)
      PROVE  Moved
  BY <1>20, <1>type DEF BulkRetryCallbacks, Goto, Idle, Handling, StartRetry, Retrying
<1>21. ASSUME NEW s \in Slot, NEW r \in Req, RetryReset(s, r)
      PROVE  Moved
  BY <1>21, <1>type DEF RetryReset, Goto, Idle, Handling, Retrying
<1>22. ASSUME NEW s \in Slot, RetryEnqueue(s)
      PROVE  Moved
  BY <1>22, <1>type DEF RetryEnqueue, Goto, Idle, Handling, NextRetry, Retrying, Enqueue
<1>23. ASSUME NEW s \in Slot, RetryEnqueueFails(s)
      PROVE  Moved
  BY <1>23, <1>type DEF RetryEnqueueFails, Goto, Idle, Handling, Enqueue, Retrying
<1>24. ASSUME NEW s \in Slot, RetryMarkFailed(s)
      PROVE  Moved
  BY <1>24, <1>type DEF RetryMarkFailed, Goto, Idle, Handling, NextRetry, Retrying
<1>25. ASSUME NEW s \in Slot, ApiCrash(s)
      PROVE  Moved
  BY <1>25, <1>type DEF ApiCrash, Goto, Idle, Handling
<1>26. ~UNCHANGED api
  BY <1>type
<1> QED
  BY <1>1, <1>2, <1>3, <1>4, <1>5, <1>6, <1>7, <1>8, <1>9, <1>10, <1>11, <1>12, <1>13, <1>14,
     <1>15, <1>16, <1>17, <1>18, <1>19, <1>20, <1>21, <1>22, <1>23, <1>24, <1>25, <1>26,
     HandlerWriters
  DEF WritesHandler

\* What a callback and a handler of the same row may do to each other: nothing.
LEMMA NoCallbackAmong ==
  ASSUME IndInv, SerialInv, NoOverlap, NEW w \in Worker, NEW s \in Slot,
         wk[w].job = "callback", wk[w].ent = api[s].ent, api[s].ent \in Entity
  PROVE  /\ Kind[api[s].ent] # "payroll"
         /\ api[s].pc = "withdraw" => ent[api[s].ent].status # "pending_approval"
<1>1. api[s].ent # None
  BY NoneAssumption
<1>2. Kind[api[s].ent] # "payroll"
  BY <1>1 DEF NoOverlap
<1>3. ASSUME api[s].pc = "withdraw"
      PROVE  ent[api[s].ent].status # "pending_approval"
  <2>1. /\ ent[api[s].ent].status \in WithdrawableFrom(Kind[api[s].ent])
        /\ (Kind[api[s].ent] = "invoice" /\ ent[api[s].ent].status = "pending_approval")
             => req[ent[api[s].ent].link].status = "cancelled"
    BY <1>3 DEF SerialInv, HandlersUpToDate
  <2>2. req[ent[api[s].ent].link].status \in {"approved", "executed"}
    BY CallbackRequest
  <2> QED
    BY <1>2, <2>1, <2>2, KindOf
<1> QED
  BY <1>2, <1>3

\* A row that a waiting handler has read is left as it was by everybody else.
LEMMA OthersLeaveRow ==
  ASSUME IndInv, SerialInv, NoOverlap, Next, NEW t \in Slot,
         api'[t] = api[t], api[t].ent \in Entity
  PROVE  LET e == api[t].ent
         IN /\ \/ ent'[e].status = ent[e].status /\ ent'[e].link = ent[e].link
               \/ /\ Kind[e] # "payroll" /\ ent'[e].link = ent[e].link
                  /\ ent'[e].status \notin {"draft", "pending_approval"}
                  /\ ent[e].status \in {"scheduled", "pending_approval", "issued"}
                  /\ ent[e].status = "pending_approval" => api[t].pc # "withdraw"
<1> DEFINE e == api[t].ent
<1> DEFINE Goal == \/ ent'[e].status = ent[e].status /\ ent'[e].link = ent[e].link
                   \/ /\ Kind[e] # "payroll" /\ ent'[e].link = ent[e].link
                      /\ ent'[e].status \notin {"draft", "pending_approval"}
                      /\ ent[e].status \in {"scheduled", "pending_approval", "issued"}
                      /\ ent[e].status = "pending_approval" => api[t].pc # "withdraw"
<1>type. api \in [Slot -> Handler] /\ e \in Entity /\ api'[t] = api[t] /\ e # None
  BY NoneAssumption DEF IndInv, TypeOK
<1>own. ASSUME NEW s \in Slot, api[s].ent = e PROVE s = t
  BY <1>own, <1>type DEF NoOverlap
<1>1. ASSUME NEW s \in Slot, NEW r \in Req, SubmitCreate(s, r), api[s].ent = e PROVE FALSE
  BY <1>1, <1>own, <1>type DEF SubmitCreate, Goto, Idle, Handling
<1>2. ASSUME NEW s \in Slot, TakeEffect(s), api[s].ent = e PROVE FALSE
  BY <1>2, <1>own, <1>type DEF TakeEffect, Goto, Idle, Handling, Handler
<1>3. ASSUME NEW s \in Slot, Schedule(s), api[s].ent = e PROVE FALSE
  BY <1>3, <1>own, <1>type DEF Schedule, Goto, Handler
<1>4. ASSUME NEW s \in Slot, FinaliseCommit(s), api[s].ent = e PROVE FALSE
  BY <1>4, <1>own, <1>type DEF FinaliseCommit, Goto, Idle, Handling
<1>5. ASSUME NEW s \in Slot, WithdrawWrite(s), api[s].ent = e PROVE FALSE
  BY <1>5, <1>own, <1>type DEF WithdrawWrite, Goto, Idle, Handling
<1>6. ASSUME NEW w \in Worker, CallbackCommit(w), wk[w].ent = e
      PROVE  /\ Kind[e] # "payroll"
             /\ api[t].pc = "withdraw" => ent[e].status # "pending_approval"
  BY <1>6, <1>type, NoCallbackAmong DEF CallbackCommit
<1>7. Moves(e)
  BY <1>type, RowMoves
<1>8. Goal
  <2> HIDE DEF e
  <2> QED
    BY <1>1, <1>2, <1>3, <1>4, <1>5, <1>6, <1>7, <1>type, KindOf DEF Moves
<1> QED
  BY <1>8

\* A cancelled request of an invoice stays cancelled.
LEMMA CancelledStays ==
  ASSUME IndInv, Next, NEW r \in Req, Kind[Target[r]] # "payroll", req[r].status = "cancelled"
  PROVE  req'[r].status = "cancelled"
BY DecisionStep DEF FinalDecisions

LEMMA HandlerStep ==
  ASSUME IndInv, SerialInv, NoOverlap, Next, NEW t \in Slot
  PROVE  LET e == api'[t].ent
             st == ent'[e].status
         IN /\ api'[t].pc \in {"submit", "create"} => st = "draft"
            /\ api'[t].pc = "direct" => st = "draft" \/ (Kind[e] = "payroll" /\ st = "pending_approval")
            /\ api'[t].pc = "finalise" => st = api'[t].seen /\ st \in {"draft", "pending_approval"}
            /\ api'[t].pc = "delay" =>
                 Kind[e] = "announcement" /\ st \notin {"draft", "pending_approval"}
            /\ api'[t].pc = "cancel_request" =>
                 Kind[e] = "invoice" /\ api'[t].req = ent'[e].link /\ Target[api'[t].req] = e
            /\ api'[t].pc = "withdraw" =>
                 /\ st \in WithdrawableFrom(Kind[e])
                 /\ (Kind[e] = "invoice" /\ st = "pending_approval")
                      => req'[ent'[e].link].status = "cancelled"
<1> DEFINE UpToDate(h, row, table) ==
      /\ h.pc \in {"submit", "create"} => row.status = "draft"
      /\ h.pc = "direct" =>
           row.status = "draft" \/ (Kind[h.ent] = "payroll" /\ row.status = "pending_approval")
      /\ h.pc = "finalise" => row.status = h.seen /\ row.status \in {"draft", "pending_approval"}
      /\ h.pc = "delay" =>
           Kind[h.ent] = "announcement" /\ row.status \notin {"draft", "pending_approval"}
      /\ h.pc = "cancel_request" =>
           Kind[h.ent] = "invoice" /\ h.req = row.link /\ Target[h.req] = h.ent
      /\ h.pc = "withdraw" =>
           /\ row.status \in WithdrawableFrom(Kind[h.ent])
           /\ (Kind[h.ent] = "invoice" /\ row.status = "pending_approval")
                => table[row.link].status = "cancelled"
<1>type. /\ api \in [Slot -> Handler] /\ References /\ ent \in [Entity -> EntRow]
         /\ req \in [Req -> ReqRow] /\ LinksExist
  BY DEF IndInv, TypeOK
<1>now. UpToDate(api[t], ent[api[t].ent], req)
  BY DEF SerialInv, HandlersUpToDate
<1>0. CASE api'[t].pc \notin {"submit", "create", "direct", "finalise", "delay",
                              "cancel_request", "withdraw"}
  BY <1>0
<1>1. CASE /\ api'[t] = api[t]
           /\ api'[t].pc \in {"submit", "create", "direct", "finalise", "delay",
                              "cancel_request", "withdraw"}
  <2> DEFINE e == api[t].ent
  <2>1. e \in Entity
    BY <1>1, <1>type DEF References
  <2>2. \/ ent'[e].status = ent[e].status /\ ent'[e].link = ent[e].link
        \/ /\ Kind[e] # "payroll" /\ ent'[e].link = ent[e].link
           /\ ent'[e].status \notin {"draft", "pending_approval"}
           /\ ent[e].status \in {"scheduled", "pending_approval", "issued"}
           /\ ent[e].status = "pending_approval" => api[t].pc # "withdraw"
    BY <1>1, <2>1, OthersLeaveRow
  <2>3. api[t].pc = "finalise" => Kind[e] = "payroll"
    BY <1>type DEF References
  <2>4. ASSUME api[t].pc = "withdraw", Kind[e] = "invoice", ent[e].status = "pending_approval"
        PROVE  req'[ent[e].link].status = "cancelled"
    <3>1. req[ent[e].link].status = "cancelled"
      BY <2>4, <1>now
    <3>2. ent[e].link \in Req /\ Target[ent[e].link] = e
      BY <2>4, <2>1, <1>type DEF SerialInv, RowsAgree, References, EntRow
    <3> QED
      BY <2>4, <3>1, <3>2, CancelledStays
  <2>5. UpToDate(api[t], ent'[e], req')
    <3> HIDE DEF e
    <3>1. e = api[t].ent
      BY DEF e
    <3> QED
      BY <1>now, <2>1, <2>2, <2>3, <2>4, <3>1, KindOf
  <2> QED
    BY <2>5, <1>1
<1>2. ASSUME NEW e \in Entity, NEW u \in User, SubmitRead(t, e, u)
      PROVE  UpToDate(api'[t], ent'[api'[t].ent], req')
  BY <1>2, <1>type DEF SubmitRead, Goto, Handling
<1>3. ASSUME NEW e \in Entity, NEW u \in User, RefinaliseRead(t, e, u)
      PROVE  UpToDate(api'[t], ent'[api'[t].ent], req')
  BY <1>3, <1>type DEF RefinaliseRead, Goto, Handling
<1>4. ASSUME NEW e \in Entity, NEW u \in User, WithdrawRead(t, e, u)
      PROVE  UpToDate(api'[t], ent'[api'[t].ent], req')
  <2>1. /\ api'[t].pc = IF LinkedRequest(e) = None THEN "withdraw" ELSE "cancel_request"
        /\ api'[t].ent = e /\ api'[t].req = LinkedRequest(e) /\ ent' = ent
        /\ ent[e].status \in WithdrawableFrom(Kind[e])
    BY <1>4, <1>type DEF WithdrawRead, Goto, Handling
  <2>2. ent[e].status = "pending_approval" => ent[e].link # None
    BY DEF SerialInv, RowsAgree
  <2>3. ent[e].link # None => Target[ent[e].link] = e
    BY <1>type DEF References
  <2> QED
    BY <2>1, <2>2, <2>3 DEF LinkedRequest
<1>5. ASSUME SubmitCheck(t)
      PROVE  UpToDate(api'[t], ent'[api'[t].ent], req')
  <2>1. ent[api[t].ent].status = "draft" /\ ent' = ent
    BY <1>5, <1>now DEF SubmitCheck
  <2>2. \/ api'[t] = Idle
        \/ api'[t] = [api[t] EXCEPT !.pc = "direct"]
        \/ api'[t] = [api[t] EXCEPT !.pc = "create"]
    BY <1>5, <1>type DEF SubmitCheck, Goto
  <2>3. api'[t].pc = "idle" \/ (api'[t].pc \in {"direct", "create"} /\ api'[t].ent = api[t].ent)
    BY <2>2, <1>type DEF Idle, Handling, Handler
  <2> QED
    BY <2>1, <2>3
<1>6. ASSUME Schedule(t)
      PROVE  UpToDate(api'[t], ent'[api'[t].ent], req')
  <2>1. api[t].ent \in Entity /\ Kind[api[t].ent] = "announcement"
    BY <1>6, <1>type DEF Schedule, References
  <2>2. ent'[api[t].ent].status = "scheduled"
    BY <1>6, <2>1, <1>type DEF Schedule, EntRow
  <2>3. api'[t].pc = "delay" /\ api'[t].ent = api[t].ent
    BY <1>6, <1>type DEF Schedule, Goto, Handler
  <2> QED
    BY <2>1, <2>2, <2>3
<1>7. ASSUME FinaliseRead(t)
      PROVE  UpToDate(api'[t], ent'[api'[t].ent], req')
  <2>1. \/ api'[t].pc = "idle"
        \/ /\ api'[t].pc = "finalise" /\ api'[t].seen = ent[api[t].ent].status
           /\ api'[t].ent = api[t].ent
           /\ ent[api[t].ent].status \in {"draft", "pending_approval"} /\ ent' = ent
    BY <1>7, <1>type DEF FinaliseRead, Goto, Idle, Handling, Handler
  <2> QED
    BY <2>1
<1>8. ASSUME CancelLinkedRequest(t)
      PROVE  UpToDate(api'[t], ent'[api'[t].ent], req')
  <2> DEFINE e == api[t].ent
             r == api[t].req
  <2>1. /\ e \in Entity /\ r \in Req /\ Kind[e] = "invoice" /\ r = ent[e].link /\ Target[r] = e
        /\ ent' = ent
    BY <1>8, <1>now, <1>type DEF CancelLinkedRequest, References
  <2>2. CASE CanCancel(r, api[t].user)
    <3>1. api'[t].pc = "withdraw" /\ api'[t].ent = e /\ req'[r].status = "cancelled"
      BY <1>8, <2>1, <2>2, <1>type DEF CancelLinkedRequest, Goto, Handler, ReqRow
    <3>2. ent[e].status = "pending_approval"
      BY <2>1, <2>2 DEF SerialInv, RowsAgree, CanCancel
    <3> HIDE DEF e, r
    <3> QED
      BY <2>1, <3>1, <3>2, KindOf
  <2>3. CASE ~CanCancel(r, api[t].user)
    BY <1>8, <2>3, <1>type DEF CancelLinkedRequest, Goto, Idle, Handling
  <2> QED
    BY <2>2, <2>3
<1>9. UpToDate(api'[t], ent'[api'[t].ent], req')
  BY <1>0, <1>1, <1>2, <1>3, <1>4, <1>5, <1>6, <1>7, <1>8, HandlerMoves
<1> QED
  BY <1>9

LEMMA HandlersStep ==
  ASSUME IndInv, SerialInv, NoOverlap, Next
  PROVE  HandlersUpToDate'
BY HandlerStep DEF HandlersUpToDate

\* A worker gets a job only by taking it, with what it reads of the row then.
LEMMA WorkerMoves ==
  ASSUME IndInv, Next, NEW v \in Worker, wk'[v] # wk[v], wk'[v].job # "none"
  PROVE  (\E r \in Req : CallbackRead(v, r)) \/ (\E e \in Entity : PublishRead(v, e))
<1> DEFINE Taken == (\E r \in Req : CallbackRead(v, r)) \/ (\E e \in Entity : PublishRead(v, e))
<1>type. wk \in [Worker -> Processing] /\ wk'[v] # wk[v] /\ wk'[v].job # "none"
  BY DEF IndInv, TypeOK
<1>1. ASSUME NEW w \in Worker, NEW r \in Req, CallbackRead(w, r)
      PROVE  Taken
  <2>1. w = v
    BY <1>1, <1>type DEF CallbackRead, Take
  <2> QED
    BY <1>1, <2>1
<1>2. ASSUME NEW w \in Worker, NEW e \in Entity, PublishRead(w, e)
      PROVE  Taken
  <2>1. w = v
    BY <1>2, <1>type DEF PublishRead, Take
  <2> QED
    BY <1>2, <2>1
<1>3. ASSUME NEW w \in Worker,
             CallbackCommit(w) \/ PublishCommit(w) \/ WorkerFails(w) \/ CallbackConflict(w)
      PROVE  Taken
  <2>1. wk' = [wk EXCEPT ![w] = Free]
    BY <1>3 DEF CallbackCommit, PublishCommit, WorkerFails, CallbackConflict, Take
  <2> QED
    BY <2>1, <1>type DEF Free
<1> QED
  BY <1>1, <1>2, <1>3, <1>type, WorkerWriters DEF WritesWorker

\* A row that a worker has read is left as it was by everybody else, unless a
\* handler withdraws an announcement already published.
LEMMA OthersLeaveJob ==
  ASSUME IndInv, SerialInv, NoOverlap, Next, NEW v \in Worker,
         wk'[v] = wk[v], wk[v].job # "none"
  PROVE  LET e == wk[v].ent
         IN /\ (wk[v].job = "callback" /\ ent[e].status = "pending_approval")
                 => ent'[e].status = "pending_approval"
            /\ (wk[v].job = "publish" /\ ent[e].status = "scheduled")
                 => ent'[e].status = "scheduled"
            /\ ent[e].status \notin {"draft", "pending_approval"}
                 => ent'[e].status \notin {"draft", "pending_approval"}
<1> DEFINE e == wk[v].ent
<1>type. /\ wk \in [Worker -> Processing] /\ e \in Entity /\ e # None
         /\ wk'[v] = wk[v] /\ wk[v].job \in {"callback", "publish"}
         /\ api \in [Slot -> Handler]
  <2>1. wk \in [Worker -> Processing] /\ api \in [Slot -> Handler]
    BY DEF IndInv, TypeOK
  <2>2. wk[v].job \in {"none", "callback", "publish"}
    BY <2>1 DEF Processing
  <2>3. e \in Entity
    BY <2>2, TargetAssumption DEF IndInv, References
  <2> QED
    BY <2>1, <2>2, <2>3, NoneAssumption
<1>1. ASSUME NEW w \in Worker, CallbackCommit(w) \/ PublishCommit(w), wk[w].ent = e
      PROVE  FALSE
  <2>1. w = v
    BY <1>1, <1>type DEF NoOverlap
  <2>2. wk' = [wk EXCEPT ![w] = Free]
    BY <1>1 DEF CallbackCommit, PublishCommit, Take
  <2> QED
    BY <2>1, <2>2, <1>type DEF Free
<1>2. ASSUME NEW s \in Slot, FinaliseCommit(s), api[s].ent = e
      PROVE  Kind[e] # "payroll"
  BY <1>2, <1>type DEF NoOverlap
<1>3. ASSUME NEW s \in Slot, WithdrawWrite(s), api[s].ent = e, wk[v].job = "callback"
      PROVE  ent[e].status # "pending_approval"
  <2>1. api[s].pc = "withdraw"
    BY <1>3 DEF WithdrawWrite
  <2> QED
    BY <1>3, <2>1, <1>type, NoCallbackAmong
<1>4. Moves(e)
  BY <1>type, RowMoves
<1> HIDE DEF e
<1>5. (wk[v].job = "callback" /\ ent[e].status = "pending_approval")
        => ent'[e].status = "pending_approval"
  BY <1>1, <1>2, <1>3, <1>4, <1>type DEF Moves
<1>6. (wk[v].job = "publish" /\ ent[e].status = "scheduled") => ent'[e].status = "scheduled"
  BY <1>1, <1>4, <1>type, KindOf DEF Moves
<1>7. ent[e].status \notin {"draft", "pending_approval"}
        => ent'[e].status \notin {"draft", "pending_approval"}
  BY <1>4, <1>type, KindOf DEF Moves
<1> QED
  BY <1>5, <1>6, <1>7 DEF e

LEMMA WorkersStep ==
  ASSUME IndInv, SerialInv, NoOverlap, Next
  PROVE  WorkersUpToDate'
<1>inv. wk \in [Worker -> Processing] /\ WorkersUpToDate /\ DelayedWereScheduled
  BY DEF IndInv, TypeOK, SerialInv
<1> SUFFICES
      ASSUME NEW v \in Worker
      PROVE  /\ (wk'[v].job = "callback" /\ wk'[v].seen = "pending_approval")
                  => ent'[wk'[v].ent].status = "pending_approval"
             /\ wk'[v].job = "publish" =>
                  /\ Kind[wk'[v].ent] = "announcement" /\ wk'[v].seen # "draft"
                  /\ ent'[wk'[v].ent].status \notin {"draft", "pending_approval"}
             /\ (wk'[v].job = "publish" /\ wk'[v].seen = "scheduled")
                  => ent'[wk'[v].ent].status = "scheduled"
  BY DEF WorkersUpToDate
<1>1. CASE wk'[v].job = "none"
  BY <1>1
<1>2. CASE wk'[v] = wk[v] /\ wk'[v].job # "none"
  BY <1>2, <1>inv, OthersLeaveJob DEF WorkersUpToDate
<1>3. ASSUME NEW r \in Req, CallbackRead(v, r)
      PROVE  /\ wk'[v].job = "callback" /\ ent' = ent
             /\ wk'[v].seen = ent[wk'[v].ent].status
  BY <1>3, <1>inv DEF CallbackRead, Take
<1>4. ASSUME NEW e \in Entity, PublishRead(v, e)
      PROVE  /\ wk'[v].job = "publish" /\ ent' = ent /\ wk'[v].ent = e
             /\ wk'[v].seen = ent[e].status
             /\ Kind[e] = "announcement" /\ ent[e].status \notin {"draft", "pending_approval"}
  <2>1. Kind[e] = "announcement" /\ ent[e].status \notin {"draft", "pending_approval"}
    BY <1>4, <1>inv DEF PublishRead, DelayedWereScheduled
  <2> QED
    BY <1>4, <2>1, <1>inv DEF PublishRead, Take
<1> QED
  BY <1>1, <1>2, <1>3, <1>4, WorkerMoves

LEMMA SerialInvInit == Init => SerialInv
BY KindOf, NoneAssumption, KindAssumption, TargetAssumption
DEF Init, SerialInv, RowsAgree, DelayedWereScheduled, HandlersUpToDate, WorkersUpToDate,
    Idle, Handling, Free, StatusOf

LEMMA SerialInvStep == IndInv /\ SerialInv /\ NoOverlap /\ [Next]_vars => SerialInv'
<1> SUFFICES ASSUME IndInv, SerialInv, NoOverlap, [Next]_vars
             PROVE  SerialInv'
  OBVIOUS
<1>1. CASE Next
  BY <1>1, RowsAgreeStep, DelayedStep, HandlersStep, WorkersStep DEF SerialInv
<1>2. CASE UNCHANGED vars
  BY <1>2
  DEF vars, SerialInv, RowsAgree, DelayedWereScheduled, HandlersUpToDate, WorkersUpToDate
<1> QED
  BY <1>1, <1>2

\* While nobody overlaps on a row, no status goes back: an entity that took
\* effect is never a draft, pending or scheduled again, and one that was
\* withdrawn or reached the ledger keeps its status, whatever the order of the
\* requests, callbacks, retries and redeliveries.
LEMMA ForwardStep ==
  ASSUME IndInv, SerialInv, Next, NEW e \in Entity
  PROVE  /\ Rank(ent'[e].status) >= Rank(ent[e].status)
         /\ Rank(ent[e].status) = 3 => ent'[e].status = ent[e].status
<1>1. Moves(e)
  BY RowMoves
<1>2. ent[e].status \in EntStatus
  BY DEF IndInv, TypeOK, EntRow
<1>3. ent'[e].status = ent[e].status =>
        /\ Rank(ent'[e].status) >= Rank(ent[e].status)
        /\ Rank(ent[e].status) = 3 => ent'[e].status = ent[e].status
  BY <1>2 DEF Rank
<1>4. ent'[e].status # ent[e].status =>
        \/ ent[e].status = "draft" /\ ent'[e].status \in EntStatus
        \/ /\ ent[e].status \in {"scheduled", "pending_approval"}
           /\ ent'[e].status \in {"published", "issued", "finalised", "archived", "cancelled"}
        \/ ent[e].status \in {"published", "issued"} /\ ent'[e].status \in {"archived", "settled"}
  BY <1>1, KindOf DEF Moves
<1>5. /\ Rank("draft") = 0 /\ Rank("scheduled") = 1 /\ Rank("pending_approval") = 1
      /\ Rank("published") = 2 /\ Rank("issued") = 2 /\ Rank("finalised") = 2
      /\ Rank("archived") = 3 /\ Rank("cancelled") = 3 /\ Rank("settled") = 3
  BY DEF Rank
<1> QED
  BY <1>3, <1>4, <1>5

\* A callback that comes again finds its entity past pending_approval.
LEMMA IdempotentStep ==
  ASSUME IndInv, SerialInv, Next, NEW e \in Entity,
         ent[e].via = "callback", ent[e].status # "pending_approval"
  PROVE  ~(ent'[e].status = Effective(Kind[e]) /\ ent'[e].status # ent[e].status)
<1>1. ent[e].status \notin {"draft", "scheduled", "pending_approval"}
  BY DEF SerialInv, RowsAgree
<1>2. Moves(e)
  BY RowMoves
<1> QED
  BY <1>1, <1>2, KindOf DEF Moves

\* What was read of a row is still so when it is written, as long as nobody
\* overlaps on it.
THEOREM SerialRowsHold == Spec /\ []NoOverlap => []SerialInv
<1>1. Init => SerialInv
  BY SerialInvInit
<1>2. IndInv /\ SerialInv /\ NoOverlap /\ [Next]_vars => SerialInv'
  BY SerialInvStep
<1> QED
  BY <1>1, <1>2, InvariantHolds, PTL DEF Spec

\* One handler and one worker at a time never overlap on an announcement or an
\* invoice: what the two theorems below say holds of such a deployment as it is.
THEOREM OneAtATime ==
  ASSUME \A s, t \in Slot : s = t, \A v, w \in Worker : v = w,
         \A e \in Entity : Kind[e] # "payroll"
  PROVE  Spec => []NoOverlap
<1>1. IndInv => NoOverlap
  BY DEF IndInv, TypeOK, NoOverlap, Handler
<1> QED
  BY <1>1, InvariantHolds, PTL

\* While nobody overlaps on a row, an entity only moves forward through its
\* state machine.
THEOREM ForwardWithoutOverlap == Spec /\ []NoOverlap => StatusMovesForward
<1>1. IndInv /\ SerialInv /\ [Next]_vars =>
        [\A e \in Entity : /\ Rank(ent'[e].status) >= Rank(ent[e].status)
                           /\ Rank(ent[e].status) = 3 => ent'[e].status = ent[e].status]_vars
  BY ForwardStep
<1> QED
  BY <1>1, InvariantHolds, SerialRowsHold, PTL DEF Spec, StatusMovesForward

\* While nobody overlaps on a row, redelivered and re-enqueued callbacks do no
\* harm: they put into effect only what is pending_approval when they write.
THEOREM IdempotentWithoutOverlap == Spec /\ []NoOverlap => CallbackIsIdempotent
<1>1. IndInv /\ SerialInv /\ [Next]_vars =>
        [\A e \in Entity : ent[e].via = "callback" /\ ent[e].status # "pending_approval" =>
           ~(ent'[e].status = Effective(Kind[e]) /\ ent'[e].status # ent[e].status)]_vars
  BY IdempotentStep
<1> QED
  BY <1>1, InvariantHolds, SerialRowsHold, PTL DEF Spec, CallbackIsIdempotent

=============================================================================
