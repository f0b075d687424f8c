------------------------------ MODULE Approvals ------------------------------
(***************************************************************************)
(* The approval engine of the API, the three kinds of entity it gates      *)
(* (announcements, invoices, payroll runs), the BullMQ jobs that carry an   *)
(* approved decision to the worker, and the daily reconciliation job.       *)
(*                                                                          *)
(* Rows live in PostgreSQL under READ COMMITTED without row locks, so a     *)
(* handler that reads a row and later writes it is two steps here, the      *)
(* read kept in the slot of the handler and the write unconditional, as     *)
(* Prisma's update({ where: { id } }) is.  Conditional updateMany calls     *)
(* are one step.                                                            *)
(***************************************************************************)
EXTENDS Integers, FiniteSets

CONSTANTS
  Entity,            \* announcements, invoices and payroll runs of one tenant
  Kind,              \* [Entity -> {"announcement", "invoice", "payroll"}]
  Req,               \* identifiers of approval_requests rows
  Target,            \* [Req -> Entity]: target_entity_id
  User,              \* staff users
  DirectAuthority,   \* users whose own authority makes approval unnecessary
  Slot,              \* API requests being served at the same time
  Worker,            \* jobs being processed at the same time
  None,              \* SQL NULL
  MaxAttempts,       \* MAX_CALLBACK_ATTEMPTS (5 in the code)
  MaxJobs,           \* bound: jobs of one request waiting in Redis
  MaxFaults,         \* bound: crashes, failed enqueues, rolled back transactions
  MaxRetries,        \* bound: retries asked for by an administrator
  MaxToggles         \* bound: changes of the tenant's settings

ASSUME KindAssumption == Kind \in [Entity -> {"announcement", "invoice", "payroll"}]
ASSUME TargetAssumption == Target \in [Req -> Entity]
ASSUME UserAssumption == DirectAuthority \subseteq User
ASSUME NoneAssumption == None \notin Req \cup User \cup Entity
ASSUME AttemptsAssumption == MaxAttempts \in Nat \ {0}
ASSUME BoundAssumption == /\ MaxJobs \in Nat \ {0}
                          /\ MaxFaults \in Nat
                          /\ MaxRetries \in Nat
                          /\ MaxToggles \in Nat

VARIABLES
  ent,       \* rows of announcements, invoices and payroll_runs
  req,       \* rows of approval_requests
  queue,     \* callback jobs waiting in Redis, per request
  delayed,   \* announcements with a delayed publish job in Redis
  api,       \* what each API handler is doing
  wk,        \* what each worker is doing
  recon,     \* the reconciliation job
  gate,      \* the tenant requires approval and has an enabled workflow
  moduleOn,  \* the finance and communications modules are enabled
  faults, retries, toggles   \* how much of each bound has been used

rows == <<ent, req>>
redis == <<queue, delayed>>
bounds == <<faults, retries, toggles>>
settings == <<gate, moduleOn>>
vars == <<ent, req, queue, delayed, api, wk, recon, gate, moduleOn, faults, retries, toggles>>

-----------------------------------------------------------------------------
(* Statuses.  "settled" stands for what the ledger does to an invoice once it *)
(* is issued: partially_paid, paid, overdue, void and written_off.            *)

EntStatus == {"draft", "scheduled", "pending_approval", "published", "issued",
              "settled", "finalised", "archived", "cancelled"}
ReqStatus == {"absent", "pending_approval", "approved", "rejected", "cancelled", "executed"}
CbStatus == {"null", "pending", "failed", "executed", "already_done", "skipped"}

Effective(k) == CASE k = "announcement" -> "published"
                  [] k = "invoice" -> "issued"
                  [] k = "payroll" -> "finalised"
Withdrawn(k) == IF k = "announcement" THEN "archived" ELSE "cancelled"
WithdrawableFrom_Pending(k) == {"published", "draft", "pending_approval"}   \* mutant: archive while in approval
WithdrawableFrom(k) == IF k = "announcement" THEN {"published", "draft"}
                                             ELSE {"draft", "pending_approval"}

\* A handler that serves user u, on entity e or request r; what it has read of
\* a run and the requests it still has to retry are filled in later.
Handling(pc, e, r, u) == [pc |-> pc, ent |-> e, req |-> r, user |-> u,
                          seen |-> "draft", todo |-> {}]
Idle == Handling("idle", None, None, None)
Free == [job |-> "none", ent |-> None, req |-> None, seen |-> "draft"]
ReconIdle == [pc |-> "idle", req |-> None, todo |-> {}, snap |-> [r \in Req |-> 0]]

Init ==
  /\ ent = [e \in Entity |-> [status |-> "draft", link |-> None, via |-> "none",
                              notified |-> FALSE]]
  /\ req = [r \in Req |-> [status |-> "absent", requester |-> None, approver |-> None,
                           cb |-> "null", attempts |-> 0, stale |-> FALSE]]
  /\ queue = [r \in Req |-> 0]
  /\ delayed = {}
  /\ api = [s \in Slot |-> Idle]
  /\ wk = [w \in Worker |-> Free]
  /\ recon = ReconIdle
  /\ gate = TRUE /\ moduleOn = TRUE
  /\ faults = 0 /\ retries = 0 /\ toggles = 0

Fault == faults < MaxFaults /\ faults' = faults + 1
Enqueue(r) == queue[r] < MaxJobs /\ queue' = [queue EXCEPT ![r] = @ + 1]
Goto(s, slot) == api' = [api EXCEPT ![s] = slot]

-----------------------------------------------------------------------------
(* publish / issue / finalise: the submitting side                            *)

\* Requests of e a transaction in progress may still create (a bound on Req).
FreeRequests(e) == {r \in Req : Target[r] = e /\ req[r].status = "absent"}
Submitting(e) == {s \in Slot : api[s].ent = e /\ api[s].pc \in {"submit", "create"}}

\* The first read of the handler: only drafts are submitted.
SubmitRead(s, e, u) ==
  /\ api[s].pc = "idle"
  /\ ent[e].status = "draft"
  /\ Cardinality(Submitting(e)) < Cardinality(FreeRequests(e))
  /\ Goto(s, Handling("submit", e, None, u))
  /\ UNCHANGED <<rows, redis, wk, recon, settings, bounds>>

\* checkAndCreateIfNeeded, up to and including the duplicate guard.
NeedsApproval(e, u) ==
  gate /\ (Kind[e] = "announcement" \/ u \notin DirectAuthority)

SubmitCheck(s) ==
  LET e == api[s].ent
      open == \E r \in Req : Target[r] = e /\ req[r].status = "pending_approval"
  IN /\ api[s].pc = "submit"
     /\ Goto(s, IF ~NeedsApproval(e, api[s].user)
                  THEN [api[s] EXCEPT !.pc = "direct"]
                  ELSE IF open THEN Idle ELSE [api[s] EXCEPT !.pc = "create"])
     /\ UNCHANGED <<rows, redis, wk, recon, settings, bounds>>

\* The rest of the transaction: insert the request, move the entity.
SubmitCreate(s, r) ==
  LET e == api[s].ent
  IN /\ api[s].pc = "create"
     /\ Target[r] = e /\ req[r].status = "absent"
     /\ req' = [req EXCEPT ![r].status = "pending_approval", ![r].requester = api[s].user]
     /\ ent' = [ent EXCEPT ![e].status = "pending_approval", ![e].link = r]
     /\ Goto(s, Idle)
     /\ UNCHANGED <<redis, wk, recon, settings, bounds>>

\* executePublish, and issue without approval: an unconditional update.
TakeEffect(s) ==
  LET e == api[s].ent
  IN /\ api[s].pc = "direct" /\ Kind[e] # "payroll"
     /\ ent' = [ent EXCEPT ![e].status = Effective(Kind[e]), ![e].via = "direct"]
     /\ Goto(s, IF Kind[e] = "announcement" THEN [api[s] EXCEPT !.pc = "fanout"] ELSE Idle)
     /\ UNCHANGED <<req, redis, wk, recon, settings, bounds>>

Fanout(s) ==
  /\ api[s].pc = "fanout"
  /\ ent' = [ent EXCEPT ![api[s].ent].notified = TRUE]
  /\ Goto(s, Idle)
  /\ UNCHANGED <<req, redis, wk, recon, settings, bounds>>

\* publish with a date in the future: the row first, then the delayed job.
Schedule(s) ==
  LET e == api[s].ent
  IN /\ api[s].pc = "direct" /\ Kind[e] = "announcement"
     /\ ent' = [ent EXCEPT ![e].status = "scheduled"]
     /\ Goto(s, [api[s] EXCEPT !.pc = "delay"])
     /\ UNCHANGED <<req, redis, wk, recon, settings, bounds>>

ScheduleJob(s) ==
  /\ api[s].pc = "delay"
  /\ delayed' = delayed \cup {api[s].ent}
  /\ Goto(s, Idle)
  /\ UNCHANGED <<rows, queue, wk, recon, settings, bounds>>

-----------------------------------------------------------------------------
(* Payroll's executeFinalisation and finaliseAtomic                            *)

\* finalise on a run that is already pending_approval: the approval gate only
\* looks at drafts, so the handler goes straight to executeFinalisation.
RefinaliseRead(s, e, u) ==
  /\ api[s].pc = "idle" /\ Kind[e] = "payroll"
  /\ ent[e].status = "pending_approval"
  /\ Goto(s, Handling("direct", e, None, u))
  /\ UNCHANGED <<rows, redis, wk, recon, settings, bounds>>

\* resolveExpectedFromState and the read of the transaction; a run in any
\* other status ends the handler without a write.
FinaliseRead(s) ==
  LET e == api[s].ent
  IN /\ api[s].pc = "direct" /\ Kind[e] = "payroll"
     /\ Goto(s, IF ent[e].status \in {"draft", "pending_approval"}
                  THEN [api[s] EXCEPT !.pc = "finalise", !.seen = ent[e].status,
                                      !.req = ent[e].link]
                  ELSE Idle)
     /\ UNCHANGED <<rows, redis, wk, recon, settings, bounds>>

FinaliseCommit(s) ==
  LET e == api[s].ent
      r == api[s].req
  IN /\ api[s].pc = "finalise"
     /\ ent' = [ent EXCEPT ![e].status = "finalised",
                           ![e].via = IF api[s].seen = "draft" THEN "direct" ELSE "refinalise"]
     /\ req' = IF r = None THEN req ELSE [req EXCEPT ![r].status = "executed"]
     /\ Goto(s, Idle)
     /\ UNCHANGED <<redis, wk, recon, settings, bounds>>

\* A payslip of the run was inserted since the read: the unique index on
\* payroll_entry_id rolls this transaction back.
PayslipsExist(e, seen) == ent[e].via # "none" /\ ent[e].status # seen

FinaliseConflict(s) ==
  /\ api[s].pc = "finalise" /\ PayslipsExist(api[s].ent, api[s].seen)
  /\ Goto(s, Idle)
  /\ UNCHANGED <<rows, redis, wk, recon, settings, bounds>>

-----------------------------------------------------------------------------
(* archive / cancel / cancelRun                                               *)

LinkedRequest_Forgotten(e) == None   \* mutant: cancel leaves the request alone
LinkedRequest(e) ==
  IF Kind[e] = "invoice" /\ ent[e].status = "pending_approval" THEN ent[e].link ELSE None

WithdrawRead(s, e, u) ==
  LET st == ent[e].status
      r == LinkedRequest(e)
  IN /\ api[s].pc = "idle"
     /\ st \in WithdrawableFrom(Kind[e])
     /\ Goto(s, Handling(IF r = None THEN "withdraw" ELSE "cancel_request", e, r, u))
     /\ UNCHANGED <<rows, redis, wk, recon, settings, bounds>>

CanCancel_Approved(r, u) ==   \* mutant: updates whatever is not yet executed
  req[r].status \in {"pending_approval", "approved"} /\ req[r].requester = u
CanCancel(r, u) == req[r].status = "pending_approval" /\ req[r].requester = u

\* invoices.cancel calls approvals.cancel, whose exceptions end the handler.
CancelLinkedRequest(s) ==
  LET r == api[s].req
  IN /\ api[s].pc = "cancel_request"
     /\ IF CanCancel(r, api[s].user)
          THEN /\ req' = [req EXCEPT ![r].status = "cancelled"]
               /\ Goto(s, [api[s] EXCEPT !.pc = "withdraw"])
          ELSE /\ Goto(s, Idle)
               /\ UNCHANGED req
     /\ UNCHANGED <<ent, redis, wk, recon, settings, bounds>>

WithdrawWrite(s) ==
  LET e == api[s].ent
  IN /\ api[s].pc = "withdraw"
     /\ ent' = [ent EXCEPT ![e].status = Withdrawn(Kind[e])]
     /\ Goto(s, Idle)
     /\ UNCHANGED <<req, redis, wk, recon, settings, bounds>>

\* Payments, voids and write-offs move an issued invoice on.
Settle(e) ==
  /\ Kind[e] = "invoice" /\ ent[e].status = "issued"
  /\ ent' = [ent EXCEPT ![e].status = "settled"]
  /\ UNCHANGED <<req, redis, api, wk, recon, settings, bounds>>

-----------------------------------------------------------------------------
(* approve / reject / cancel: transitionPendingRequest                        *)

CanDecide_Self(r, u) == req[r].status = "pending_approval"   \* mutant: no self-approval check
CanDecide_Stale(r, u) ==   \* mutant: the update is not conditional on the status
  req[r].status \in {"pending_approval", "approved"} /\ req[r].requester # u
CanDecide(r, u) == req[r].status = "pending_approval" /\ req[r].requester # u

Approve(s, r, u) ==
  /\ api[s].pc = "idle"
  /\ CanDecide(r, u)
  /\ req' = [req EXCEPT ![r].status = "approved", ![r].approver = u,
                        ![r].cb = "pending", ![r].attempts = 0]
  /\ Goto(s, Handling("enqueue", None, r, u))
  /\ UNCHANGED <<ent, redis, wk, recon, settings, bounds>>

ApproveEnqueue(s) ==
  /\ api[s].pc = "enqueue"
  /\ Enqueue(api[s].req)
  /\ Goto(s, Idle)
  /\ UNCHANGED <<rows, delayed, wk, recon, settings, bounds>>

\* queue.add throws; Redis may have taken the job all the same.
ApproveEnqueueFails(s) ==
  /\ api[s].pc = "enqueue"
  /\ Fault
  /\ Enqueue(api[s].req) \/ UNCHANGED queue
  /\ Goto(s, [api[s] EXCEPT !.pc = "mark_failed"])
  /\ UNCHANGED <<rows, delayed, wk, recon, settings, retries, toggles>>

\* markCallbackFailure writes whatever the request has become meanwhile.
MarkCallbackFailure(s) ==
  /\ api[s].pc = "mark_failed"
  /\ req' = [req EXCEPT ![api[s].req].cb = "failed"]
  /\ Goto(s, Idle)
  /\ UNCHANGED <<ent, redis, wk, recon, settings, bounds>>

Reject(r, u) ==
  /\ CanDecide(r, u)
  /\ req' = [req EXCEPT ![r].status = "rejected", ![r].approver = u]
  /\ UNCHANGED <<ent, redis, api, wk, recon, settings, bounds>>

Cancel(r, u) ==
  /\ CanCancel(r, u)
  /\ req' = [req EXCEPT ![r].status = "cancelled"]
  /\ UNCHANGED <<ent, redis, api, wk, recon, settings, bounds>>

\* Thirty minutes pass since decided_at.
Age(r) ==
  /\ req[r].status = "approved" /\ ~req[r].stale
  /\ req' = [req EXCEPT ![r].stale = TRUE]
  /\ UNCHANGED <<ent, redis, api, wk, recon, settings, bounds>>

-----------------------------------------------------------------------------
(* retryCallback and bulkRetryCallbacks                                       *)

Retrying(T) == [Handling("retry", None, None, None) EXCEPT !.todo = T]

StartRetry(s, T) ==
  /\ api[s].pc = "idle" /\ T # {}
  /\ retries < MaxRetries /\ retries' = retries + 1
  /\ Goto(s, Retrying(T))
  /\ UNCHANGED <<rows, redis, wk, recon, settings, faults, toggles>>

RetryCallback(s, r) ==
  /\ req[r].status = "approved"
  /\ req[r].cb = "failed" \/ (req[r].cb = "pending" /\ req[r].stale)
  /\ StartRetry(s, {r})

BulkRetryCallbacks(s, filter) ==
  StartRetry(s, {r \in Req : /\ req[r].status = "approved" /\ req[r].stale
                             /\ req[r].cb \in filter})

RetryReset(s, r) ==
  /\ api[s].pc = "retry" /\ r \in api[s].todo
  /\ req' = [req EXCEPT ![r].cb = "pending", ![r].attempts = 0]
  /\ Goto(s, [api[s] EXCEPT !.pc = "retry_add", !.req = r, !.todo = @ \ {r}])
  /\ UNCHANGED <<ent, redis, wk, recon, settings, bounds>>

NextRetry(s) == Goto(s, IF api[s].todo = {} THEN Idle ELSE Retrying(api[s].todo))

RetryEnqueue(s) ==
  /\ api[s].pc = "retry_add"
  /\ Enqueue(api[s].req)
  /\ NextRetry(s)
  /\ UNCHANGED <<rows, delayed, wk, recon, settings, bounds>>

RetryEnqueueFails(s) ==
  /\ api[s].pc = "retry_add"
  /\ Fault
  /\ Enqueue(api[s].req) \/ UNCHANGED queue
  /\ Goto(s, [api[s] EXCEPT !.pc = "retry_failed"])
  /\ UNCHANGED <<rows, delayed, wk, recon, settings, retries, toggles>>

RetryMarkFailed(s) ==
  /\ api[s].pc = "retry_failed"
  /\ req' = [req EXCEPT ![api[s].req].cb = "failed"]
  /\ NextRetry(s)
  /\ UNCHANGED <<ent, redis, wk, recon, settings, bounds>>

-----------------------------------------------------------------------------
(* The reconciliation job: a scan, then one request after the other           *)

Stuck_NoLimit(r) ==   \* mutant: the attempts are not bounded
  req[r].status = "approved" /\ req[r].cb \in {"pending", "failed"} /\ req[r].stale
Stuck_PendingOnly(r) ==   \* mutant: a failed enqueue is not picked up
  /\ req[r].status = "approved" /\ req[r].cb = "pending"
  /\ req[r].attempts < MaxAttempts /\ req[r].stale
Stuck(r) ==
  /\ req[r].status = "approved" /\ req[r].cb \in {"pending", "failed"}
  /\ req[r].attempts < MaxAttempts /\ req[r].stale

ReconScan ==
  LET T == {r \in Req : Stuck(r)}
  IN /\ recon.pc = "idle" /\ T # {}
     /\ recon' = [pc |-> "scan", req |-> None, todo |-> T,
                  snap |-> [r \in Req |-> IF r \in T THEN req[r].attempts ELSE 0]]
     /\ UNCHANGED <<rows, redis, api, wk, settings, bounds>>

ReconNext(r) ==
  recon' = IF recon.todo = {r} THEN ReconIdle
           ELSE [pc |-> "scan", req |-> None, todo |-> recon.todo \ {r},
                 snap |-> [recon.snap EXCEPT ![r] = 0]]

\* The write of the job for request r: the attempt counted from the scan.
ReconWrite(r, status) ==
  /\ req' = [req EXCEPT ![r].cb = status, ![r].attempts = recon.snap[r] + 1]
  /\ ReconNext(r)
  /\ UNCHANGED <<ent, redis, api, wk, settings, bounds>>

ReconExhaust(r) ==
  /\ recon.pc = "scan" /\ r \in recon.todo
  /\ recon.snap[r] + 1 >= MaxAttempts
  /\ ReconWrite(r, "failed")

ReconEnqueue(r) ==
  /\ recon.pc = "scan" /\ r \in recon.todo
  /\ recon.snap[r] + 1 < MaxAttempts
  /\ Enqueue(r)
  /\ recon' = [recon EXCEPT !.pc = "added", !.req = r]
  /\ UNCHANGED <<rows, delayed, api, wk, settings, bounds>>

ReconEnqueueFails(r) ==
  /\ recon.pc = "scan" /\ r \in recon.todo
  /\ recon.snap[r] + 1 < MaxAttempts
  /\ Fault
  /\ Enqueue(r) \/ UNCHANGED queue
  /\ recon' = [recon EXCEPT !.pc = "add_failed", !.req = r]
  /\ UNCHANGED <<rows, delayed, api, wk, settings, retries, toggles>>

ReconUpdate(r) ==
  recon.pc = "added" /\ r = recon.req /\ ReconWrite(r, "pending")

ReconMarkFailed(r) ==
  recon.pc = "add_failed" /\ r = recon.req /\ ReconWrite(r, "failed")

ReconCrash ==
  /\ recon.pc # "idle"
  /\ Fault
  /\ recon' = ReconIdle
  /\ UNCHANGED <<rows, redis, api, wk, settings, retries, toggles>>

-----------------------------------------------------------------------------
(* The workers: the approval callbacks and the delayed publish job            *)

Dequeue(r) == queue[r] > 0 /\ queue' = [queue EXCEPT ![r] = @ - 1]
Take(w, rec) == wk' = [wk EXCEPT ![w] = rec]

\* With the module off the processor returns at once and the job is gone.
CallbackSkipped(r) ==
  /\ Dequeue(r)
  /\ ~moduleOn /\ Kind[Target[r]] # "payroll"
  /\ UNCHANGED <<rows, delayed, api, wk, recon, settings, bounds>>

\* The transaction opens and reads the entity.
CallbackRead(w, r) ==
  LET e == Target[r]
  IN /\ wk[w].job = "none"
     /\ Dequeue(r)
     /\ moduleOn \/ Kind[e] = "payroll"
     /\ Take(w, [job |-> "callback", ent |-> e, req |-> r, seen |-> ent[e].status])
     /\ UNCHANGED <<rows, delayed, api, recon, settings, bounds>>

Executable_Always(k, st) == st # Effective(k)   \* mutant: the status is not checked
Executable(k, st) == st = "pending_approval"
AlreadyDone_Left(k, st) == st # "pending_approval"   \* mutant: anything but pending is done
AlreadyDone(k, st) == st = Effective(k)

\* It commits what the status it has read calls for: execute, self-heal or skip.
CallbackCommit(w) ==
  LET e == wk[w].ent
      r == wk[w].req
      k == Kind[e]
      seen == wk[w].seen
  IN /\ wk[w].job = "callback"
     /\ \/ /\ Executable(k, seen)
           /\ ent' = [ent EXCEPT ![e].status = Effective(k), ![e].via = "callback"]
           /\ req' = [req EXCEPT ![r].status = "executed", ![r].cb = "executed"]
        \/ /\ AlreadyDone(k, seen)
           /\ req' = [req EXCEPT ![r].status = "executed", ![r].cb = "already_done"]
           /\ UNCHANGED ent
        \/ /\ ~Executable(k, seen) /\ ~AlreadyDone(k, seen)
           /\ req' = [req EXCEPT ![r].cb = "skipped"]
           /\ UNCHANGED ent
     /\ Take(w, Free)
     /\ UNCHANGED <<redis, api, recon, settings, bounds>>

PublishRead(w, e) ==
  /\ wk[w].job = "none" /\ e \in delayed
  /\ delayed' = delayed \ {e}
  /\ Take(w, [job |-> "publish", ent |-> e, req |-> None, seen |-> ent[e].status])
  /\ UNCHANGED <<rows, queue, api, recon, settings, bounds>>

PublishCommit(w) ==
  LET e == wk[w].ent
  IN /\ wk[w].job = "publish"
     /\ IF wk[w].seen \in {"scheduled", "draft"}
          THEN ent' = [ent EXCEPT ![e].status = "published", ![e].via = "direct",
                                  ![e].notified = TRUE]
          ELSE UNCHANGED ent
     /\ Take(w, Free)
     /\ UNCHANGED <<req, redis, api, recon, settings, bounds>>

\* The job goes back to its queue, or has used up its attempts and is dropped.
Redeliver(w) ==
  IF wk[w].job = "callback"
    THEN (Enqueue(wk[w].req) \/ UNCHANGED queue) /\ UNCHANGED delayed
    ELSE delayed' \in {delayed, delayed \cup {wk[w].ent}} /\ UNCHANGED queue

\* The transaction rolls back: an error, a timeout or the death of the worker.
WorkerFails(w) ==
  /\ wk[w].job # "none"
  /\ Fault
  /\ Redeliver(w)
  /\ Take(w, Free)
  /\ UNCHANGED <<rows, api, recon, settings, retries, toggles>>

CallbackConflict(w) ==
  /\ wk[w].job = "callback" /\ wk[w].seen = "pending_approval"
  /\ Kind[wk[w].ent] = "payroll" /\ PayslipsExist(wk[w].ent, wk[w].seen)
  /\ Redeliver(w)
  /\ Take(w, Free)
  /\ UNCHANGED <<rows, api, recon, settings, bounds>>

\* The job lock expires while the transaction still runs: BullMQ declares the
\* job stalled and delivers it a second time.
JobStalls(w) ==
  /\ wk[w].job = "callback"
  /\ Fault
  /\ Enqueue(wk[w].req)
  /\ UNCHANGED <<rows, delayed, api, wk, recon, settings, retries, toggles>>

-----------------------------------------------------------------------------
(* Crashes of the API and changes of the tenant's settings                    *)

ApiCrash(s) ==
  /\ api[s].pc # "idle"
  /\ Fault
  /\ Goto(s, Idle)
  /\ UNCHANGED <<rows, redis, wk, recon, settings, retries, toggles>>

Toggle ==
  /\ toggles < MaxToggles /\ toggles' = toggles + 1
  /\ \/ gate' = ~gate /\ UNCHANGED moduleOn
     \/ moduleOn' = ~moduleOn /\ UNCHANGED gate
  /\ UNCHANGED <<rows, redis, api, wk, recon, faults, retries>>

-----------------------------------------------------------------------------
\* What users ask for.
UserStep ==
  \/ \E s \in Slot, e \in Entity, u \in User :
       SubmitRead(s, e, u) \/ RefinaliseRead(s, e, u) \/ WithdrawRead(s, e, u)
  \/ \E s \in Slot, r \in Req, u \in User : Approve(s, r, u)
  \/ \E r \in Req, u \in User : Reject(r, u) \/ Cancel(r, u)
  \/ \E s \in Slot, r \in Req : RetryCallback(s, r)
  \/ \E s \in Slot, filter \in {{"failed"}, {"pending"}, {"failed", "pending"}} :
       BulkRetryCallbacks(s, filter)
  \/ \E e \in Entity : Settle(e)
  \/ Toggle

\* The next step of a handler that has started.
ApiStep(s) ==
  \/ SubmitCheck(s) \/ TakeEffect(s) \/ Fanout(s) \/ Schedule(s) \/ ScheduleJob(s)
  \/ FinaliseRead(s) \/ FinaliseCommit(s) \/ FinaliseConflict(s)
  \/ CancelLinkedRequest(s) \/ WithdrawWrite(s)
  \/ ApproveEnqueue(s) \/ MarkCallbackFailure(s)
  \/ RetryEnqueue(s) \/ RetryMarkFailed(s)
  \/ \E r \in Req : SubmitCreate(s, r) \/ RetryReset(s, r)

ReconStep ==
  \/ ReconScan
  \/ \E r \in Req : ReconExhaust(r) \/ ReconEnqueue(r) \/ ReconUpdate(r) \/ ReconMarkFailed(r)

WorkerStep(w) == CallbackCommit(w) \/ PublishCommit(w) \/ CallbackConflict(w)

DeliverCallback(r) == CallbackSkipped(r) \/ \E w \in Worker : CallbackRead(w, r)

DeliverPublish(e) == \E w \in Worker : PublishRead(w, e)

FaultStep ==
  \/ \E s \in Slot : ApproveEnqueueFails(s) \/ RetryEnqueueFails(s) \/ ApiCrash(s)
  \/ \E r \in Req : ReconEnqueueFails(r)
  \/ ReconCrash
  \/ \E w \in Worker : WorkerFails(w) \/ JobStalls(w)

Next ==
  \/ UserStep
  \/ \E s \in Slot : ApiStep(s)
  \/ \E r \in Req : Age(r)
  \/ ReconStep
  \/ \E w \in Worker : WorkerStep(w)
  \/ \E r \in Req : DeliverCallback(r)
  \/ \E e \in Entity : DeliverPublish(e)
  \/ FaultStep

Spec == Init /\ [][Next]_vars

\* A handler that has started finishes, time passes, the cron fires every day
\* and the queues deliver; users and faults owe nothing.
Fairness ==
  /\ \A s \in Slot : WF_vars(ApiStep(s))
  /\ \A r \in Req : WF_vars(Age(r))
  /\ WF_vars(ReconStep)
  /\ \A w \in Worker : WF_vars(WorkerStep(w))
  /\ \A r \in Req : WF_vars(DeliverCallback(r))
  /\ \A e \in Entity : WF_vars(DeliverPublish(e))

FairSpec == Spec /\ Fairness

-----------------------------------------------------------------------------
(* Properties                                                                 *)

EntRow == [status : EntStatus, link : Req \cup {None},
           via : {"none", "direct", "callback", "refinalise"}, notified : BOOLEAN]
ReqRow == [status : ReqStatus, requester : User \cup {None}, approver : User \cup {None},
           cb : CbStatus, attempts : 0..MaxAttempts, stale : BOOLEAN]
Handler == [pc : {"idle", "submit", "create", "direct", "fanout", "delay", "finalise",
                  "cancel_request", "withdraw", "enqueue", "mark_failed",
                  "retry", "retry_add", "retry_failed"},
            ent : Entity \cup {None}, req : Req \cup {None}, user : User \cup {None},
            seen : EntStatus, todo : SUBSET Req]
Processing == [job : {"none", "callback", "publish"}, ent : Entity \cup {None},
               req : Req \cup {None}, seen : EntStatus]
Reconciling == [pc : {"idle", "scan", "added", "add_failed"}, req : Req \cup {None},
                todo : SUBSET Req, snap : [Req -> 0..(MaxAttempts - 1)]]

\* The shape of every row, job and handler; the attempts of a request never pass
\* MAX_CALLBACK_ATTEMPTS and a scan only ever snapshots fewer.
TypeOK ==
  /\ ent \in [Entity -> EntRow] /\ req \in [Req -> ReqRow]
  /\ queue \in [Req -> 0..MaxJobs] /\ delayed \subseteq Entity
  /\ api \in [Slot -> Handler] /\ wk \in [Worker -> Processing] /\ recon \in Reconciling
  /\ gate \in BOOLEAN /\ moduleOn \in BOOLEAN
  /\ faults \in 0..MaxFaults /\ retries \in 0..MaxRetries /\ toggles \in 0..MaxToggles

\* r has a callback job: waiting in Redis, in a worker, or about to be enqueued
\* by a handler or by reconciliation.
InFlight(r) ==
  \/ queue[r] > 0
  \/ \E w \in Worker : wk[w].job = "callback" /\ wk[w].req = r
  \/ \E s \in Slot : \/ r \in api[s].todo
                    \/ /\ api[s].req = r
                       /\ api[s].pc \in {"enqueue", "mark_failed", "retry_add", "retry_failed"}
  \/ r \in recon.todo

\* Somebody other than the requester approved r.
Approved(r) == /\ req[r].status \in {"approved", "executed"}
               /\ req[r].approver \notin {None, req[r].requester}

\* Every callback job belongs to a request that was approved: this is what keeps
\* a rejected or cancelled request from executing, whatever the order of
\* decisions, retries, reconciliation and redeliveries.
JobsOnlyForApproved == \A r \in Req : InFlight(r) => Approved(r)

\* A request is marked executed only once its entity has taken effect: the
\* self-heal branch of a callback ("already_done") never reports work that
\* nobody did.
ExecutedTookEffect ==
  \A r \in Req : req[r].status = "executed" => ent[Target[r]].via # "none"

\* Four eyes: an entity that a callback put into effect has a request that
\* somebody other than its requester approved.
FourEyes ==
  \A e \in Entity : ent[e].via = "callback" =>
    \E r \in Req : Target[r] = e /\ Approved(r)

FinalDecisions ==
  {<<"absent", "pending_approval">>, <<"pending_approval", "approved">>,
   <<"pending_approval", "rejected">>, <<"pending_approval", "cancelled">>,
   <<"approved", "executed">>}

\* Decisions are final: a request leaves pending_approval once, and only an
\* approved one is ever executed (announcements and invoices).
DecisionsAreFinal ==
  [][\A r \in Req : (Kind[Target[r]] # "payroll" /\ req'[r].status # req[r].status) =>
       <<req[r].status, req'[r].status>> \in FinalDecisions]_vars

\* An entity only moves forward through its state machine: nothing that took
\* effect, was withdrawn or reached the ledger goes back (VALID_INVOICE_TRANSITIONS
\* and the announcement machine).
Rank(st) == CASE st = "draft" -> 0
              [] st \in {"scheduled", "pending_approval"} -> 1
              [] st \in {"published", "issued", "finalised"} -> 2
              [] OTHER -> 3
StatusMovesForward ==
  [][\A e \in Entity : /\ Rank(ent'[e].status) >= Rank(ent[e].status)
                       /\ Rank(ent[e].status) = 3 => ent'[e].status = ent[e].status]_vars

\* Every approval comes to rest: executed, skipped because the entity left
\* pending_approval, or reported as permanently failed after MAX_CALLBACK_ATTEMPTS.
Settled(r) == \/ req[r].status = "executed"
              \/ req[r].cb = "skipped"
              \/ req[r].cb = "failed" /\ req[r].attempts = MaxAttempts
ApprovedSettles ==
  \A r \in Req : req[r].status = "approved" ~> Settled(r)

\* --- The inductive invariant behind the safety properties ---

\* What the local state of handlers, workers and reconciliation refers to.
References ==
  /\ \A s \in Slot :
       /\ api[s].pc \in {"submit", "create", "direct", "fanout", "delay", "finalise",
                        "cancel_request", "withdraw"} => api[s].ent \in Entity
       /\ api[s].pc \in {"cancel_request", "enqueue", "mark_failed", "retry_add",
                        "retry_failed"} => api[s].req \in Req
       /\ api[s].pc \in {"submit", "create"} => api[s].user \in User
       /\ api[s].pc = "finalise" =>
            /\ Kind[api[s].ent] = "payroll"
            /\ api[s].req # None => Target[api[s].req] = api[s].ent
  /\ \A w \in Worker :
       /\ wk[w].job = "callback" => wk[w].req \in Req /\ wk[w].ent = Target[wk[w].req]
       /\ wk[w].job = "publish" => wk[w].ent \in Entity
  /\ recon.pc \in {"added", "add_failed"} => recon.req \in recon.todo
  /\ \A e \in Entity : ent[e].link # None => Target[ent[e].link] = e

\* A status of an entity in effect, in its row or as read by a worker, is backed
\* by the effect itself.
EffectsHappened ==
  /\ \A e \in Entity : ent[e].status \in {"published", "issued", "finalised", "settled"}
                       => ent[e].via # "none"
  /\ \A w \in Worker : (wk[w].job = "callback" /\ AlreadyDone(Kind[wk[w].ent], wk[w].seen))
                       => ent[wk[w].ent].via # "none"

ApprovedByOther == \A r \in Req : req[r].status = "approved" => Approved(r)

\* The request a row is linked to, or a finalisation is about to execute, exists.
LinksExist ==
  /\ \A e \in Entity : ent[e].link # None => req[ent[e].link].status # "absent"
  /\ \A s \in Slot : (api[s].pc = "finalise" /\ api[s].req # None)
                       => req[api[s].req].status # "absent"

\* Everything the invariants above rest on, closed under every step: what
\* transitionPendingRequest, the retries, reconciliation and the callbacks keep
\* true together.
IndInv ==
  /\ TypeOK /\ References /\ LinksExist
  /\ JobsOnlyForApproved /\ ApprovedByOther /\ FourEyes
  /\ EffectsHappened /\ ExecutedTookEffect

\* --- What holds as long as nobody overlaps on the same entity ---

\* No two handlers, and no two workers, are between their read and their write
\* of the same row; a handler and a callback may be, except on a payroll run.
NoOverlap ==
  /\ \A s, t \in Slot : (api[s].ent = api[t].ent /\ api[s].ent # None) => s = t
  /\ \A v, w \in Worker : (wk[v].ent = wk[w].ent /\ wk[v].ent # None) => v = w
  /\ \A s \in Slot, w \in Worker :
       (api[s].ent = wk[w].ent /\ api[s].ent # None) => Kind[api[s].ent] # "payroll"

StatusOf(k) ==
  {"draft", "pending_approval", Effective(k), Withdrawn(k)} \cup
    (CASE k = "announcement" -> {"scheduled"} [] k = "invoice" -> {"settled"} [] k = "payroll" -> {})

\* A row is in a status of its kind; it has a request exactly once it was
\* submitted for approval, the one it is linked to; what took effect is past
\* approval, and the request of an invoice is open only while the invoice is.
RowsAgree ==
  /\ \A e \in Entity :
       /\ ent[e].status \in StatusOf(Kind[e])
       /\ ent[e].status \in {"draft", "scheduled", "pending_approval"} => ent[e].via = "none"
       /\ ent[e].status = "pending_approval" => ent[e].link # None
  /\ \A r \in Req : req[r].status # "absent" =>
       /\ ent[Target[r]].link = r
       /\ ent[Target[r]].status \notin {"draft", "scheduled"}
       /\ (Kind[Target[r]] = "invoice" /\ req[r].status = "pending_approval")
            => ent[Target[r]].status = "pending_approval"

\* A delayed publish job is for an announcement that was scheduled.
DelayedWereScheduled ==
  \A e \in Entity : e \in delayed =>
    Kind[e] = "announcement" /\ ent[e].status \notin {"draft", "pending_approval"}

\* What a handler read of its row is still so when it writes: a callback
\* working on the same row cannot change it under the handler.
HandlersUpToDate ==
  \A s \in Slot :
    LET e == api[s].ent
        st == ent[e].status
    IN /\ api[s].pc \in {"submit", "create"} => st = "draft"
       /\ api[s].pc = "direct" => st = "draft" \/ (Kind[e] = "payroll" /\ st = "pending_approval")
       /\ api[s].pc = "finalise" => st = api[s].seen /\ st \in {"draft", "pending_approval"}
       /\ api[s].pc = "delay" => Kind[e] = "announcement" /\ st \notin {"draft", "pending_approval"}
       /\ api[s].pc = "cancel_request" =>
            Kind[e] = "invoice" /\ api[s].req = ent[e].link /\ Target[api[s].req] = e
       /\ api[s].pc = "withdraw" =>
            /\ st \in WithdrawableFrom(Kind[e])
            /\ (Kind[e] = "invoice" /\ st = "pending_approval") => req[ent[e].link].status = "cancelled"

\* So is what a worker read and will act on.
WorkersUpToDate ==
  \A w \in Worker :
    LET st == ent[wk[w].ent].status
    IN /\ (wk[w].job = "callback" /\ wk[w].seen = "pending_approval") => st = "pending_approval"
       /\ wk[w].job = "publish" => /\ Kind[wk[w].ent] = "announcement" /\ wk[w].seen # "draft"
                                  /\ st \notin {"draft", "pending_approval"}
       /\ (wk[w].job = "publish" /\ wk[w].seen = "scheduled") => st = "scheduled"

SerialInv == RowsAgree /\ DelayedWereScheduled /\ HandlersUpToDate /\ WorkersUpToDate

\* --- Claims of the documentation and of comments in the code ---

\* approval-requests.service.ts:661, "reject if an open request already exists".
OneOpenRequest ==
  \A r1, r2 \in Req :
    (/\ req[r1].status = "pending_approval" /\ req[r2].status = "pending_approval"
     /\ Target[r1] = Target[r2]) => r1 = r2

\* danger-zones.md:109, callback_status = 'executed' is set alongside status = 'executed'.
ExecutedCallbackRecorded ==
  \A r \in Req : req[r].status = "executed" => req[r].cb \in {"executed", "already_done"}

\* danger-zones.md:114, a duplicate re-enqueue is safe: a callback only ever
\* puts into effect what is pending_approval when it writes.
CallbackIsIdempotent ==
  [][\A e \in Entity : ent[e].via = "callback" /\ ent[e].status # "pending_approval" =>
       ~(ent'[e].status = Effective(Kind[e]) /\ ent'[e].status # ent[e].status)]_vars

\* state-machines.md:350, published triggers notification dispatch to the audience.
PublishedIsNotified ==
  \A e \in Entity : ent[e].status = "published" ~> ent[e].notified

\* payroll-runs.service.ts:790, re-finalising happens after approval was granted.
RefinaliseAfterApproval ==
  \A e \in Entity : ent[e].via = "refinalise" =>
    \E r \in Req : Target[r] = e /\ req[r].approver # None

\* state-machines.md:333, cancelRun cancels the dangling request.
CancelledRunHasNoOpenRequest ==
  \A e \in Entity, r \in Req :
    (Target[r] = e /\ ent[e].status = "cancelled") => req[r].status # "pending_approval"

\* state-machines.md:327, finalised is terminal.
FinalisedIsTerminal ==
  [][\A e \in Entity : ent[e].status = "finalised" => ent'[e].status = "finalised"]_vars

\* state-machines.md:326, a rejected run goes back to draft.
RejectionReleases ==
  \A r \in Req : req[r].status = "rejected" ~> ent[Target[r]].status # "pending_approval"
=============================================================================
