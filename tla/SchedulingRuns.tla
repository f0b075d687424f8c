---------------------------- MODULE SchedulingRuns ----------------------------
(***************************************************************************)
(* The life of a timetable solver run of one academic year: the API creates,  *)
(* cancels, adjusts, discards and applies it, the solver worker claims it and *)
(* writes its result, and two reapers fail what a crash has left behind.       *)
(*                                                                          *)
(* Most handlers read the row in one statement and update it by id in a later *)
(* transaction, so a step that reads fills in the handler's copy and another   *)
(* step writes.  Production runs one worker process and BullMQ gives it one     *)
(* job of the queue at a time, the cron's reaper included; the reaper of a      *)
(* starting worker runs beside its first job.                                   *)
(***************************************************************************)
EXTENDS Integers, FiniteSets

CONSTANTS
  Run, Slot,     \* scheduling_runs of the year; API requests served at a time
  None,          \* SQL NULL
  Generated,     \* whether the year already has a generated timetable
  MaxStalls,     \* maxStalledCount of the queue
  MaxEvents      \* bound: failed calls, lost locks and crashes, adjustments,
                 \* attendance taken and switches of the module, all together

ASSUME NoneAssumption == None \notin Run \cup Slot
ASSUME FiniteRunAssumption == IsFiniteSet(Run)
ASSUME SwitchAssumption == Generated \in BOOLEAN
ASSUME BoundAssumption == MaxStalls \in Nat /\ MaxEvents \in Nat

VARIABLES
  run,       \* rows of scheduling_runs
  job,       \* the scheduling:solve-v2 job of each run
  schedule,  \* the auto_generated schedules, by the application that wrote them
  attended,  \* applications whose schedules have attendance sessions
  api,       \* what each API request is doing
  worker,    \* the job the worker is processing
  boot,      \* the reaper of a worker that is starting
  moduleOn,  \* auto_scheduling is enabled
  events     \* how much of the bound has been used

vars == <<run, job, schedule, attended, api, worker, boot, moduleOn, events>>

-----------------------------------------------------------------------------
Status == {"absent", "blocked", "queued", "running", "completed", "failed", "applied",
           "discarded"}
Active == {"queued", "running"}

\* Request s applying run r writes the schedules <<r, s>>; Old are those the year
\* has at the beginning.
Old == <<None, None>>
Application == (Run \X Slot) \cup {Old}
NoSchedule == [st |-> "none", ends |-> 0]
Live == {b \in Application : schedule[b].st = "live"}
Present == {b \in Application : schedule[b].st # "none"}

Handling(pc, r) == [pc |-> pc, run |-> r, adj |-> {}, rows |-> {}, att |-> {}]
Idle == Handling("idle", None)
Working(pc, r, s) == [pc |-> pc, run |-> r, seen |-> s]
Resting == Working("idle", None, "absent")

Init ==
  /\ run = [r \in Run |-> [status |-> "absent", results |-> 0, adj |-> {}, cancelled |-> "no"]]
  /\ job = [r \in Run |-> [st |-> "none", stalls |-> 0]]
  /\ schedule = [b \in Application |-> IF Generated /\ b = Old
                                         THEN [st |-> "live", ends |-> 0] ELSE NoSchedule]
  /\ attended = {}
  /\ api = [s \in Slot |-> Idle]
  /\ worker = Resting
  /\ boot = Working("off", None, "absent")
  /\ moduleOn = TRUE /\ events = 0

Goto(s, step) == api' = [api EXCEPT ![s] = step]
SetStatus(r, st) == run' = [run EXCEPT ![r].status = st]
SetJob(r, st) == job' = [job EXCEPT ![r].st = st]
Event == events < MaxEvents /\ events' = events + 1
Timetable == <<schedule, attended>>

NoOtherActive(r) == \A q \in Run \ {r} : run[q].status \notin Active
\* mutant: the index is missing.
IndexAllows_Missing(r) == TRUE
\* idx_scheduling_runs_active lets one run of the year be queued or running.
IndexAllows(r) == NoOtherActive(r)
\* SchedulingApplyService holds the run's row FOR UPDATE until it commits.
Locked(r) == \E s \in Slot : api[s].pc = "replace_locked" /\ api[s].run = r

-----------------------------------------------------------------------------
(* The API                                                                     *)

\* A request whose copy of run r passes the handler's status check goes on.
Starts(s, r, pc) ==
  /\ moduleOn /\ api[s].pc = "idle"
  /\ Goto(s, Handling(pc, r))
  /\ UNCHANGED <<run, job, Timetable, worker, boot, moduleOn, events>>

\* create, triggerSolverRun: no active run is found.
TriggerRead(s) == NoOtherActive(None) /\ Starts(s, None, "insert")

\* The insert; the feasibility sweep of triggerSolverRun may block the run instead.
TriggerInsert(s, r) ==
  /\ api[s].pc = "insert" /\ run[r].status = "absent" /\ IndexAllows(r)
  /\ SetStatus(r, "queued")
  /\ Goto(s, Handling("enqueue", r))
  /\ UNCHANGED <<job, Timetable, worker, boot, moduleOn, events>>

\* Another run is active by now and the index refuses the insert.
TriggerConflict(s) ==
  /\ api[s].pc = "insert" /\ ~IndexAllows(None)
  /\ Goto(s, Idle)
  /\ UNCHANGED <<run, job, Timetable, worker, boot, moduleOn, events>>

\* mutant: a blocked run is queued for the worker as well.
TriggerBlocked_Queued(s, r) ==
  /\ api[s].pc = "insert" /\ run[r].status = "absent"
  /\ SetStatus(r, "blocked")
  /\ Goto(s, Handling("enqueue", r))
  /\ UNCHANGED <<job, Timetable, worker, boot, moduleOn, events>>

TriggerBlocked(s, r) ==
  /\ api[s].pc = "insert" /\ run[r].status = "absent"
  /\ SetStatus(r, "blocked")
  /\ Goto(s, Idle)
  /\ UNCHANGED <<job, Timetable, worker, boot, moduleOn, events>>

Enqueue(s) ==
  /\ api[s].pc = "enqueue"
  /\ SetJob(api[s].run, "waiting")
  /\ Goto(s, Idle)
  /\ UNCHANGED <<run, Timetable, worker, boot, moduleOn, events>>

\* Queue.add throws or takes longer than the five seconds it is given; the
\* abandoned call may still add the job.
EnqueueFails(s) ==
  /\ api[s].pc = "enqueue" /\ Event
  /\ \E st \in {"none", "late"} : SetJob(api[s].run, st)
  /\ Goto(s, [api[s] EXCEPT !.pc = "unqueued"])
  /\ UNCHANGED <<run, Timetable, worker, boot, moduleOn>>

LateAdd(r) ==
  /\ job[r].st = "late"
  /\ SetJob(r, "waiting")
  /\ UNCHANGED <<run, Timetable, api, worker, boot, moduleOn, events>>

CancelRead(s, r) == run[r].status \in Active /\ Starts(s, r, "cancel")
DiscardRead(s, r) == run[r].status = "completed" /\ Starts(s, r, "discard")

\* The update by id of cancel, discard and a failed enqueue; cancelled is history:
\* the status that a cancel has ended.
Overwrite(s, pc, st) ==
  LET r == api[s].run IN
  /\ api[s].pc = pc /\ ~Locked(r)
  /\ run' = [run EXCEPT ![r].status = st,
                        ![r].cancelled = IF pc = "cancel" /\ run[r].status \in Active
                                           THEN run[r].status ELSE @]
  /\ Goto(s, Idle)
  /\ UNCHANGED <<job, Timetable, worker, boot, moduleOn, events>>

MarkUnqueued(s) == Overwrite(s, "unqueued", "failed")
CancelWrite(s) == Overwrite(s, "cancel", "failed")
DiscardWrite(s) == Overwrite(s, "discard", "discarded")

\* addAdjustment appends to the array it has read, after its optimistic check.
AdjustRead(s, r) ==
  /\ moduleOn /\ api[s].pc = "idle" /\ run[r].status = "completed" /\ Event
  /\ Goto(s, [Handling("adjust", r) EXCEPT !.adj = run[r].adj])
  /\ UNCHANGED <<run, job, Timetable, worker, boot, moduleOn>>

AdjustWrite(s) ==
  LET r == api[s].run IN
  /\ api[s].pc = "adjust" /\ ~Locked(r)
  /\ run' = [run EXCEPT ![r].adj = api[s].adj \cup {s}]
  /\ Goto(s, Idle)
  /\ UNCHANGED <<job, Timetable, worker, boot, moduleOn, events>>

\* The two routes to the timetable: SchedulingApplyService checks the status under
\* the row's lock, applyRun before its transaction begins.
ApplyLock(s, r) ==
  /\ moduleOn /\ api[s].pc = "idle" /\ run[r].status = "completed" /\ ~Locked(r)
  /\ Goto(s, [Handling("replace_locked", r) EXCEPT !.rows = Present, !.att = attended])
  /\ UNCHANGED <<run, job, Timetable, worker, boot, moduleOn, events>>

\* mutant: the status is not checked.
ApplyRead_Unchecked(s, r) == run[r].status # "absent" /\ Starts(s, r, "apply")
ApplyRead(s, r) == run[r].status = "completed" /\ Starts(s, r, "apply")

ApplyBegin(s) ==
  /\ api[s].pc = "apply"
  /\ Goto(s, [api[s] EXCEPT !.pc = "replace", !.rows = Present, !.att = attended])
  /\ UNCHANGED <<run, job, Timetable, worker, boot, moduleOn, events>>

\* Schedules with attendance are end-dated, the others deleted by id, and the new
\* ones inserted.  An update or delete of a row that is gone rolls all of it back.
Replaced(s, b) ==
  IF b = <<api[s].run, s>> THEN [schedule[b] EXCEPT !.st = "live"]
  ELSE IF b \notin api[s].rows THEN schedule[b]
  ELSE IF b \in api[s].att THEN [st |-> "ended", ends |-> schedule[b].ends + 1]
  ELSE NoSchedule

\* mutant: deleteMany ignores the rows that are gone.
RowsStillThere_DeleteMany(s) == TRUE
RowsStillThere(s) == api[s].rows \subseteq Present

Replaces(s) ==
  \/ api[s].pc = "replace_locked"
  \/ api[s].pc = "replace" /\ ~Locked(api[s].run)

ApplyCommit(s) ==
  /\ Replaces(s) /\ RowsStillThere(s)
  /\ schedule' = [b \in Application |-> Replaced(s, b)]
  /\ SetStatus(api[s].run, "applied")
  /\ Goto(s, Idle)
  /\ UNCHANGED <<job, attended, worker, boot, moduleOn, events>>

ApplyConflict(s) ==
  /\ Replaces(s) /\ ~RowsStillThere(s)
  /\ Goto(s, Idle)
  /\ UNCHANGED <<run, job, Timetable, worker, boot, moduleOn, events>>

\* A request dies between two steps: an exception, cancelRun's lock timeout, the
\* timeout of an interactive transaction, or a crash of the API.
Abort(s) ==
  /\ api[s].pc # "idle" /\ Event
  /\ Goto(s, Idle)
  /\ UNCHANGED <<run, job, Timetable, worker, boot, moduleOn>>

AttendanceTaken(b) ==
  /\ schedule[b].st = "live" /\ b \notin attended /\ Event
  /\ attended' = attended \cup {b}
  /\ UNCHANGED <<run, job, schedule, api, worker, boot, moduleOn>>

-----------------------------------------------------------------------------
(* The worker                                                                  *)

\* A job whose lock was lost while it was being processed is waiting again.
Finished(r, st) == IF job[r].st = "active" THEN SetJob(r, st) ELSE UNCHANGED job

StartJob(r) ==
  /\ moduleOn /\ worker.pc = "idle" /\ job[r].st = "waiting"
  /\ SetJob(r, "active")
  /\ worker' = Working("claim", r, "absent")
  /\ UNCHANGED <<run, Timetable, api, boot, moduleOn, events>>

SkipJob(r) ==
  /\ ~moduleOn /\ worker.pc = "idle" /\ job[r].st = "waiting"
  /\ SetJob(r, "done")
  /\ UNCHANGED <<run, Timetable, api, worker, boot, moduleOn, events>>

Terminal(st) == st \notin Active

\* mutant: a run that has ended is claimed again.
ClaimRead_Ended ==
  LET r == worker.run IN
  /\ worker.pc = "claim"
  /\ worker' = Working("claimed", r, IF Terminal(run[r].status) THEN "queued" ELSE run[r].status)
  /\ UNCHANGED <<run, job, Timetable, api, boot, moduleOn, events>>

\* Step 1 of processJob: findFirst, and an update by id in the same transaction.
ClaimRead ==
  LET r == worker.run IN
  /\ worker.pc = "claim"
  /\ IF Terminal(run[r].status)
       THEN Finished(r, "done") /\ worker' = Resting
       ELSE UNCHANGED job /\ worker' = Working("claimed", r, run[r].status)
  /\ UNCHANGED <<run, Timetable, api, boot, moduleOn, events>>

Claim ==
  LET r == worker.run IN
  /\ worker.pc = "claimed" /\ worker.seen = "queued" /\ ~Locked(r) /\ IndexAllows(r)
  /\ SetStatus(r, "running")
  /\ worker' = Working("solve", r, "absent")
  /\ UNCHANGED <<job, Timetable, api, boot, moduleOn, events>>

\* The run was cancelled and another one is active: the unique index refuses.
ClaimConflict ==
  /\ worker.pc = "claimed" /\ worker.seen = "queued" /\ ~IndexAllows(worker.run)
  /\ worker' = Working("fail", worker.run, "absent")
  /\ UNCHANGED <<run, job, Timetable, api, boot, moduleOn, events>>

\* A run found running belongs to a worker that crashed.
ClaimCrashed ==
  LET r == worker.run IN
  /\ worker.pc = "claimed" /\ worker.seen = "running" /\ ~Locked(r)
  /\ SetStatus(r, "failed")
  /\ Finished(r, "done") /\ worker' = Resting
  /\ UNCHANGED <<Timetable, api, boot, moduleOn, events>>

\* The sidecar answers, or it fails or times out.
Solve ==
  /\ worker.pc = "solve"
  /\ \E pc \in {"persist", "fail"} : worker' = Working(pc, worker.run, "absent")
  /\ UNCHANGED <<run, job, Timetable, api, boot, moduleOn, events>>

\* mutant: the result is written by id, whatever the run's status is by then.
Persistable_Always(r) == TRUE
\* updateMany with status = running: a result of a run that is not is discarded.
Persistable(r) == run[r].status = "running"

Persist ==
  LET r == worker.run IN
  /\ worker.pc = "persist" /\ ~Locked(r)
  /\ run' = IF Persistable(r)
              THEN [run EXCEPT ![r].status = "completed", ![r].results = @ + 1] ELSE run
  /\ worker' = Working("commit", r, "absent")
  /\ UNCHANGED <<job, Timetable, api, boot, moduleOn, events>>

\* The outer transaction of TenantAwareJob ends last.
OuterCommit ==
  /\ worker.pc = "commit"
  /\ Finished(worker.run, "done") /\ worker' = Resting
  /\ UNCHANGED <<run, Timetable, api, boot, moduleOn, events>>

\* It may fail on its own, when it begins or when it ends, and so may the claim's.
Throws ==
  /\ worker.pc \in {"claim", "claimed", "commit"} /\ Event
  /\ worker' = Working("fail", worker.run, "absent")
  /\ UNCHANGED <<run, job, Timetable, api, boot, moduleOn>>

\* The processor's catch: an update by id, whose own failure is only logged.
MarkFailed ==
  LET r == worker.run IN
  /\ worker.pc = "fail" /\ ~Locked(r)
  /\ SetStatus(r, "failed")
  /\ Finished(r, "done") /\ worker' = Resting
  /\ UNCHANGED <<Timetable, api, boot, moduleOn, events>>

MarkFailedFails ==
  /\ worker.pc = "fail" /\ Event
  /\ Finished(worker.run, "done") /\ worker' = Resting
  /\ UNCHANGED <<run, Timetable, api, boot, moduleOn>>

\* BullMQ finds an active job without a lock, after a crash or while extendLock
\* fails, and queues it again; the claim's transaction is over by then.
Stall(r) ==
  /\ job[r].st = "active" /\ ~(worker.run = r /\ worker.pc \in {"claim", "claimed"})
  /\ IF worker.run = r THEN Event ELSE UNCHANGED events
  /\ job' = [job EXCEPT ![r] = IF job[r].stalls < MaxStalls
                                 THEN [st |-> "waiting", stalls |-> @.stalls + 1]
                                 ELSE [@ EXCEPT !.st = "done"]]
  /\ UNCHANGED <<run, Timetable, api, worker, boot, moduleOn>>

\* The process dies and pm2 starts it again.
WorkerCrash ==
  /\ Event
  /\ worker' = Resting
  /\ boot' = Working("scan", None, "absent")
  /\ UNCHANGED <<run, job, Timetable, api, moduleOn>>

\* reapOnStartup: an active run that is older than the grace period is failed by
\* id; there may be none, or none that is old enough.
BootScan ==
  /\ boot.pc = "scan"
  /\ \/ boot' = Working("off", None, "absent")
     \/ /\ moduleOn
        /\ \E r \in Run : run[r].status \in Active /\ boot' = Working("write", r, "absent")
  /\ UNCHANGED <<run, job, Timetable, api, worker, moduleOn, events>>

BootWrite ==
  /\ boot.pc = "write" /\ ~Locked(boot.run)
  /\ SetStatus(boot.run, "failed")
  /\ boot' = Working("off", None, "absent")
  /\ UNCHANGED <<job, Timetable, api, worker, moduleOn, events>>

\* mutant: the reaper looks at the queued runs only.
CronScan_Queued ==
  /\ moduleOn /\ worker.pc = "idle"
  /\ \E r \in Run : run[r].status = "queued" /\ worker' = Working("reap", r, "absent")
  /\ UNCHANGED <<run, job, Timetable, api, boot, moduleOn, events>>

\* reapStaleRuns, a job of the same queue: a running run that nobody has touched
\* for longer than it may take is failed by id.
CronScan ==
  /\ moduleOn /\ worker.pc = "idle"
  /\ \E r \in Run : run[r].status = "running" /\ worker' = Working("reap", r, "absent")
  /\ UNCHANGED <<run, job, Timetable, api, boot, moduleOn, events>>

CronWrite ==
  /\ worker.pc = "reap" /\ ~Locked(worker.run)
  /\ SetStatus(worker.run, "failed")
  /\ worker' = Resting
  /\ UNCHANGED <<job, Timetable, api, boot, moduleOn, events>>

ToggleModule ==
  /\ Event
  /\ moduleOn' = ~moduleOn
  /\ UNCHANGED <<run, job, Timetable, api, worker, boot>>

-----------------------------------------------------------------------------
RequestStep(s) ==
  \/ \E r \in Run : TriggerInsert(s, r) \/ TriggerBlocked(s, r)
  \/ TriggerConflict(s) \/ Enqueue(s) \/ EnqueueFails(s) \/ MarkUnqueued(s) \/ CancelWrite(s) \/ DiscardWrite(s)
  \/ AdjustWrite(s) \/ ApplyBegin(s) \/ ApplyCommit(s) \/ ApplyConflict(s)

RequestStart(s, r) ==
  \/ CancelRead(s, r) \/ DiscardRead(s, r) \/ AdjustRead(s, r)
  \/ ApplyLock(s, r) \/ ApplyRead(s, r)

WorkerStep ==
  \/ ClaimRead \/ Claim \/ ClaimConflict \/ ClaimCrashed \/ Solve \/ Persist
  \/ OuterCommit \/ MarkFailed \/ CronWrite

Next ==
  \/ \E s \in Slot : \/ RequestStep(s) \/ Abort(s) \/ TriggerRead(s)
                       \/ \E r \in Run : RequestStart(s, r)
  \/ \E r \in Run : LateAdd(r) \/ StartJob(r) \/ SkipJob(r) \/ Stall(r)
  \/ WorkerStep \/ CronScan \/ Throws \/ MarkFailedFails \/ WorkerCrash
  \/ BootScan \/ BootWrite
  \/ \E b \in Application : AttendanceTaken(b)
  \/ ToggleModule

Spec == Init /\ [][Next]_vars

\* Requests, jobs and the process go on; BullMQ serves the jobs of the queue in
\* turn, so one that keeps waiting is taken at last; a lock nobody renews expires.
\* Administrators, teachers and faults owe nothing.
Stalled(r) == worker.run # r /\ Stall(r)
Fairness ==
  /\ \A s \in Slot : WF_vars(RequestStep(s))
  /\ \A r \in Run : WF_vars(LateAdd(r)) /\ SF_vars(StartJob(r)) /\ WF_vars(Stalled(r))
  /\ WF_vars(WorkerStep) /\ SF_vars(CronScan) /\ WF_vars(BootScan) /\ WF_vars(BootWrite)

FairSpec == Spec /\ Fairness

-----------------------------------------------------------------------------
(* Properties                                                                  *)

RunRow == [status : Status, results : Nat, adj : SUBSET Slot,
           cancelled : {"no", "queued", "running"}]
JobRow == [st : {"none", "late", "waiting", "active", "done"}, stalls : 0..MaxStalls]
ApiPcs == {"idle", "insert", "enqueue", "unqueued", "cancel", "discard", "adjust",
           "apply", "replace", "replace_locked"}
WorkerPcs == {"idle", "claim", "claimed", "solve", "persist", "commit", "fail", "reap"}
Handler == [pc : ApiPcs, run : Run \cup {None}, adj : SUBSET Slot, rows : SUBSET Application,
            att : SUBSET Application]
Process == [pc : WorkerPcs, run : Run \cup {None}, seen : Status]
Reaper == [pc : {"off", "scan", "write"}, run : Run \cup {None}, seen : Status]
ScheduleRow == [st : {"none", "live", "ended"}, ends : Nat]

\* Every variable has the shape the handlers rely on.
TypeOK ==
  /\ run \in [Run -> RunRow] /\ job \in [Run -> JobRow]
  /\ schedule \in [Application -> ScheduleRow] /\ attended \subseteq Application
  /\ api \in [Slot -> Handler] /\ worker \in Process /\ boot \in Reaper
  /\ moduleOn \in BOOLEAN /\ events \in Nat

\* However many administrators trigger at once, and although the worker's claim may
\* bring a cancelled run back, at most one run of the year is queued or running.
OneActiveRun == \A r, q \in Run : run[r].status \in Active /\ run[q].status \in Active => r = q

\* A run is solved once: no redelivery of its job, after a crash or a lost lock,
\* writes a second result over the one an administrator is reviewing.
OneResult == \A r \in Run : run[r].results <= 1

\* Cancelling a running run stands: whatever the worker, the reapers and other
\* requests still do, the run stays failed and has no result (SCHED-027).
CancelHolds ==
  \A r \in Run : run[r].cancelled = "running" => run[r].status = "failed" /\ run[r].results = 0

\* What stands in the timetable came out of the solver, although one route to the
\* timetable checks the run before its transaction and not in it.
TimetableIsSolved == \A r \in Run, s \in Slot : <<r, s>> \in Present => run[r].results > 0

\* As long as no attendance has been taken, a year with a generated timetable has
\* exactly one, however many applications of whichever runs overlap: each deletes
\* by id the rows it has read, and fails when another was faster.
OneTimetable == Generated /\ attended = {} => \E b \in Application : Live = {b}

\* While the module is enabled a run that is running comes to an end, and so does a
\* queued one whose job is in the queue: it is solved, cancelled, or reaped.
ActiveRunsEnd ==
  \A r \in Run : (run[r].status = "running" \/ (run[r].status = "queued" /\ job[r].st = "waiting"))
                   ~> (run[r].status \notin Active \/ ~moduleOn)

\* --- What the documents say and overlapping requests break (README, section 6) ---

\* A cancelled run is not solved, also when it was cancelled in the queue.
CancelledStays == \A r \in Run : run[r].cancelled # "no" => run[r].results = 0

\* Applied is terminal.
AppliedStays == [][\A r \in Run : run[r].status = "applied" => run'[r].status = "applied"]_vars

\* A completed run is applied or discarded, nothing else.
ResultKept ==
  [][\A r \in Run : run[r].status = "completed"
                      => run'[r].status \in {"completed", "applied", "discarded"}]_vars

\* Applying a run replaces the timetable, whatever else is being applied.
OnePublished == Cardinality(Live) <= 1

\* An adjustment that was accepted stays with the run.
AdjustmentsKept == [][\A r \in Run : run[r].adj \subseteq run'[r].adj]_vars

\* Schedules with attendance are end-dated and never deleted.
AttendedKept ==
  [][\A b \in attended : schedule[b].st # "none" => schedule'[b].st # "none"]_vars

\* The end date of a timetable that was replaced is not moved by the next application.
EndedOnce == \A b \in Application : schedule[b].ends <= 1

\* Every queued run is solved or failed at last.
QueuedEnds == \A r \in Run : run[r].status = "queued" ~> (run[r].status # "queued" \/ ~moduleOn)

\* --- The inductive invariant behind the safety properties ---

\* What each step refers to.
References ==
  /\ \A s \in Slot : api[s].pc \notin {"idle", "insert"} => api[s].run \in Run
  /\ worker.pc # "idle" => worker.run \in Run
  /\ boot.pc = "write" => boot.run \in Run

\* A run has a result if and only if it went through completed, and it is claimed
\* at most once: nothing queues a run again.
Fresh(r) == run[r].status \in {"absent", "blocked", "queued", "running"}
SolvedOnce ==
  /\ \A r \in Run : /\ Fresh(r) => run[r].results = 0
                    /\ run[r].status \in {"completed", "applied", "discarded"} => run[r].results = 1
                    /\ run[r].results <= 1
  /\ worker.pc # "idle" => run[worker.run].status \notin {"absent", "blocked"}
  /\ boot.pc = "write" => run[boot.run].status \notin {"absent", "blocked"}
  /\ worker.pc = "claimed" =>
       /\ worker.seen \in Active
       /\ run[worker.run].results = 0
       /\ worker.seen = "queued" => /\ run[worker.run].status \in {"queued", "failed"}
                                    /\ run[worker.run].cancelled # "running"

\* A job belongs to a run that was inserted.
JobsBelong == \A r \in Run : job[r].st # "none" => run[r].status \notin {"absent", "blocked"}

\* Whoever goes on to adjust, discard or apply has read a completed run.
HasResult(s) == api[s].pc \in {"adjust", "discard", "apply", "replace", "replace_locked"}
Submitted(s) == api[s].pc \in {"enqueue", "unqueued", "cancel"}
ReadersSawResult ==
  \A s \in Slot : /\ HasResult(s) => run[api[s].run].results = 1
                  /\ Submitted(s) => run[api[s].run].status \notin {"absent", "blocked"}

\* Before any attendance, what an application has read is the one timetable there was.
Replacing(s) == api[s].pc \in {"replace", "replace_locked"}
OneTimetableRead ==
  Generated /\ attended = {} =>
    /\ \E b \in Application : Live = {b} /\ Present = {b}
    /\ \A s \in Slot : Replacing(s) => api[s].att = {} /\ \E b \in Application : api[s].rows = {b}
AttendedRead == \A s \in Slot : api[s].att \subseteq attended

IndInv ==
  /\ TypeOK /\ OneActiveRun /\ CancelHolds /\ TimetableIsSolved
  /\ References /\ SolvedOnce /\ JobsBelong /\ ReadersSawResult
  /\ OneTimetableRead /\ AttendedRead
=============================================================================
