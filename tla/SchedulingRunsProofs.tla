------------------------- MODULE SchedulingRunsProofs -------------------------
(* Theorems about SchedulingRuns for any number of runs and concurrent requests  *)
(* and any number of crashes, lost locks and failed calls.                       *)
EXTENDS SchedulingRuns, TLAPS

-----------------------------------------------------------------------------
(* Rows and processes, written one field at a time                               *)

\* What SetStatus writes, and what it leaves alone.
LEMMA StatusSet ==
  ASSUME TypeOK, NEW r \in Run, NEW st \in Status, SetStatus(r, st)
  PROVE  /\ run' \in [Run -> RunRow]
         /\ \A q \in Run \ {r} : run'[q] = run[q]
         /\ run'[r].status = st
         /\ run'[r].results = run[r].results /\ run'[r].cancelled = run[r].cancelled
<1>1. run \in [Run -> RunRow] /\ run[r] \in RunRow
  BY DEF TypeOK
<1>2. run' = [run EXCEPT ![r] = [run[r] EXCEPT !.status = st]]
  BY <1>1 DEF SetStatus
<1>3. [run[r] EXCEPT !.status = st] \in RunRow
  BY <1>1 DEF RunRow
<1> QED
  BY <1>1, <1>2, <1>3 DEF RunRow

\* What SetJob writes.
LEMMA JobSet ==
  ASSUME TypeOK, NEW r \in Run, NEW st \in {"none", "late", "waiting", "active", "done"},
         SetJob(r, st)
  PROVE  /\ job' \in [Run -> JobRow]
         /\ \A q \in Run \ {r} : job'[q] = job[q]
<1>1. job \in [Run -> JobRow] /\ job[r] \in JobRow
  BY DEF TypeOK
<1>2. job' = [job EXCEPT ![r] = [job[r] EXCEPT !.st = st]]
  BY <1>1 DEF SetJob
<1>3. [job[r] EXCEPT !.st = st] \in JobRow
  BY <1>1 DEF JobRow
<1> QED
  BY <1>1, <1>2, <1>3

\* A job ends, or is left alone because it was queued again.
LEMMA JobFinished ==
  ASSUME TypeOK, NEW r \in Run, Finished(r, "done")
  PROVE  /\ job' \in [Run -> JobRow]
         /\ \A q \in Run : job'[q].st # "none" => job[q].st # "none"
<1>1. CASE job[r].st = "active"
  <2>1. SetJob(r, "done")
    BY <1>1 DEF Finished
  <2> QED
    BY <1>1, <2>1, JobSet
<1>2. CASE UNCHANGED job
  BY <1>2 DEF TypeOK
<1> QED
  BY <1>1, <1>2 DEF Finished

LEMMA HandlingType ==
  ASSUME NEW pc \in ApiPcs, NEW r \in Run \cup {None}
  PROVE  /\ Handling(pc, r) \in Handler
         /\ Handling(pc, r).pc = pc /\ Handling(pc, r).run = r
         /\ Handling(pc, r).rows = {} /\ Handling(pc, r).att = {}
BY DEF Handling, Handler

LEMMA IdleType == Idle \in Handler /\ Idle.pc = "idle" /\ Idle.att = {}
BY HandlingType DEF Idle, ApiPcs

LEMMA WorkingType ==
  ASSUME NEW pc, NEW r \in Run \cup {None}, NEW st \in Status
  PROVE  /\ pc \in WorkerPcs => Working(pc, r, st) \in Process
         /\ pc \in {"off", "scan", "write"} => Working(pc, r, st) \in Reaper
         /\ Working(pc, r, st).pc = pc /\ Working(pc, r, st).run = r
         /\ Working(pc, r, st).seen = st
BY DEF Working, Process, Reaper

LEMMA RestingType == Resting \in Process /\ Resting.pc = "idle"
BY WorkingType DEF Resting, WorkerPcs, Status

\* A request's next step.
LEMMA Went ==
  ASSUME TypeOK, NEW s \in Slot, NEW h \in Handler, Goto(s, h)
  PROVE  /\ api' \in [Slot -> Handler]
         /\ api'[s] = h /\ \A t \in Slot \ {s} : api'[t] = api[t]
BY DEF TypeOK, Goto

-----------------------------------------------------------------------------
(* Types                                                                         *)

LEMMA EventType == ASSUME TypeOK, Event PROVE events' \in Nat
BY DEF TypeOK, Event

LEMMA OldIsApplication == Old \in Application /\ \A r \in Run, s \in Slot : <<r, s>> \in Application
BY DEF Old, Application

LEMMA InitTypes == Init => TypeOK
<1> SUFFICES ASSUME Init PROVE TypeOK
  OBVIOUS
<1>1. run \in [Run -> RunRow] /\ job \in [Run -> JobRow]
  BY BoundAssumption DEF Init, RunRow, JobRow, Status
<1>2. schedule \in [Application -> ScheduleRow] /\ attended \subseteq Application
  BY DEF Init, ScheduleRow, NoSchedule
<1>3. api \in [Slot -> Handler]
  BY IdleType DEF Init
<1>4. worker \in Process /\ boot \in Reaper
  BY RestingType, WorkingType DEF Init, Status
<1> QED
  BY <1>1, <1>2, <1>3, <1>4 DEF Init, TypeOK

LEMMA StartsType ==
  ASSUME TypeOK, NEW s \in Slot, NEW r \in Run \cup {None}, NEW pc \in ApiPcs, Starts(s, r, pc)
  PROVE  TypeOK'
<1>1. api' \in [Slot -> Handler]
  BY HandlingType, Went DEF Starts
<1> QED
  BY <1>1 DEF Starts, TypeOK, Timetable

LEMMA OverwriteType ==
  ASSUME TypeOK, References, NEW s \in Slot, NEW pc \in ApiPcs \ {"idle", "insert"}, NEW st \in Status,
         Overwrite(s, pc, st)
  PROVE  /\ TypeOK'
         /\ api[s].run \in Run
         /\ \A q \in Run \ {api[s].run} : run'[q] = run[q]
         /\ run'[api[s].run].status = st /\ run'[api[s].run].results = run[api[s].run].results
         /\ run'[api[s].run].cancelled = IF pc = "cancel" /\ run[api[s].run].status \in Active
                                            THEN run[api[s].run].status ELSE run[api[s].run].cancelled
<1> DEFINE r == api[s].run
           c == IF pc = "cancel" /\ run[r].status \in Active THEN run[r].status ELSE run[r].cancelled
<1>1. r \in Run /\ run \in [Run -> RunRow] /\ run[r] \in RunRow
  BY DEF TypeOK, References, Overwrite
<1>2. c \in {"no", "queued", "running"}
  BY <1>1 DEF RunRow, Active
<1>3. run' = [run EXCEPT ![r] = [run[r] EXCEPT !.status = st, !.cancelled = c]]
  BY <1>1 DEF Overwrite
<1>4. [run[r] EXCEPT !.status = st, !.cancelled = c] \in RunRow
  BY <1>1, <1>2 DEF RunRow
<1>5. run' \in [Run -> RunRow]
  BY <1>1, <1>3, <1>4
<1>6. api' \in [Slot -> Handler]
  BY IdleType, Went DEF Overwrite
<1>7. TypeOK'
  BY <1>5, <1>6 DEF Overwrite, TypeOK, Timetable
<1>8. run'[r] = [run[r] EXCEPT !.status = st, !.cancelled = c]
  BY <1>1, <1>3
<1>9. run'[r].status = st /\ run'[r].results = run[r].results /\ run'[r].cancelled = c
  BY <1>1, <1>8 DEF RunRow
<1> QED
  BY <1>1, <1>3, <1>7, <1>9
\* The rows an application deletes or ends, and the ones it inserts.
LEMMA ReplacedType ==
  ASSUME TypeOK, NEW s \in Slot, NEW b \in Application
  PROVE  Replaced(s, b) \in ScheduleRow
<1>1. schedule[b] \in ScheduleRow
  BY DEF TypeOK
<1>2. [schedule[b] EXCEPT !.st = "live"] \in ScheduleRow
  BY <1>1 DEF ScheduleRow
<1>3. [st |-> "ended", ends |-> schedule[b].ends + 1] \in ScheduleRow /\ NoSchedule \in ScheduleRow
  BY <1>1 DEF ScheduleRow, NoSchedule
<1> QED
  BY <1>1, <1>2, <1>3 DEF Replaced

\* What one request may do keeps the types.
LEMMA RequestTypes ==
  ASSUME TypeOK, References, NEW s \in Slot, NEW r \in Run,
         \/ TriggerRead(s) \/ TriggerInsert(s, r) \/ TriggerBlocked(s, r) \/ TriggerConflict(s)
         \/ Enqueue(s) \/ EnqueueFails(s) \/ MarkUnqueued(s) \/ CancelWrite(s) \/ DiscardWrite(s)
         \/ AdjustWrite(s) \/ ApplyBegin(s) \/ ApplyCommit(s) \/ ApplyConflict(s)
         \/ RequestStart(s, r) \/ Abort(s)
  PROVE  TypeOK'
<1>api. api[s] \in Handler
  BY DEF TypeOK
<1>att. Present \subseteq Application /\ attended \subseteq Application
  BY DEF TypeOK, Present
<1>1. CASE TriggerRead(s)
  BY <1>1, StartsType DEF TriggerRead, ApiPcs
<1>2. CASE TriggerInsert(s, r)
  <2>1. run' \in [Run -> RunRow]
    BY <1>2, StatusSet DEF TriggerInsert, Status
  <2>2. api' \in [Slot -> Handler]
    BY <1>2, HandlingType, Went DEF TriggerInsert, ApiPcs
  <2> QED
    BY <1>2, <2>1, <2>2 DEF TriggerInsert, TypeOK, Timetable
<1>3. CASE TriggerBlocked(s, r)
  <2>1. run' \in [Run -> RunRow]
    BY <1>3, StatusSet DEF TriggerBlocked, Status
  <2>2. api' \in [Slot -> Handler]
    BY <1>3, IdleType, Went DEF TriggerBlocked
  <2> QED
    BY <1>3, <2>1, <2>2 DEF TriggerBlocked, TypeOK, Timetable
<1>4. CASE TriggerConflict(s)
  <2>1. api' \in [Slot -> Handler]
    BY <1>4, IdleType, Went DEF TriggerConflict
  <2> QED
    BY <1>4, <2>1 DEF TriggerConflict, TypeOK, Timetable
<1>5. CASE Enqueue(s)
  <2>1. job' \in [Run -> JobRow]
    BY <1>5, JobSet DEF Enqueue, References
  <2>2. api' \in [Slot -> Handler]
    BY <1>5, IdleType, Went DEF Enqueue
  <2> QED
    BY <1>5, <2>1, <2>2 DEF Enqueue, TypeOK, Timetable
<1>6. CASE EnqueueFails(s)
  <2>1. PICK st \in {"none", "late"} : SetJob(api[s].run, st)
    BY <1>6 DEF EnqueueFails
  <2>2. job' \in [Run -> JobRow]
    BY <1>6, <2>1, JobSet DEF EnqueueFails, References
  <2>3. [api[s] EXCEPT !.pc = "unqueued"] \in Handler
    BY <1>api DEF Handler, ApiPcs
  <2>4. api' \in [Slot -> Handler]
    BY <1>6, <2>3, Went DEF EnqueueFails
  <2>5. events' \in Nat
    BY <1>6, EventType DEF EnqueueFails
  <2> QED
    BY <1>6, <2>2, <2>4, <2>5 DEF EnqueueFails, TypeOK, Timetable
<1>7. CASE MarkUnqueued(s)
  BY <1>7, OverwriteType DEF MarkUnqueued, ApiPcs, Status
<1>8. CASE CancelWrite(s)
  BY <1>8, OverwriteType DEF CancelWrite, ApiPcs, Status
<1>9. CASE DiscardWrite(s)
  BY <1>9, OverwriteType DEF DiscardWrite, ApiPcs, Status
<1>10. CASE AdjustWrite(s)
  <2> DEFINE q == api[s].run
             a == api[s].adj \cup {s}
  <2>1. q \in Run /\ run \in [Run -> RunRow] /\ run[q] \in RunRow
    BY <1>10 DEF AdjustWrite, References, TypeOK
  <2>2. a \in SUBSET Slot
    BY <1>api DEF Handler
  <2>3. run' = [run EXCEPT ![q] = [run[q] EXCEPT !.adj = a]]
    BY <1>10, <2>1 DEF AdjustWrite
  <2>4. [run[q] EXCEPT !.adj = a] \in RunRow
    BY <2>1, <2>2 DEF RunRow
  <2>5. run' \in [Run -> RunRow]
    BY <2>1, <2>3, <2>4
  <2>6. api' \in [Slot -> Handler]
    BY <1>10, IdleType, Went DEF AdjustWrite
  <2> QED
    BY <1>10, <2>5, <2>6 DEF AdjustWrite, TypeOK, Timetable
<1>11. CASE ApplyBegin(s)
  <2>1. [api[s] EXCEPT !.pc = "replace", !.rows = Present, !.att = attended] \in Handler
    BY <1>api, <1>att DEF Handler, ApiPcs
  <2>2. api' \in [Slot -> Handler]
    BY <1>11, <2>1, Went DEF ApplyBegin
  <2> QED
    BY <1>11, <2>2 DEF ApplyBegin, TypeOK, Timetable
<1>12. CASE ApplyCommit(s)
  <2>1. run' \in [Run -> RunRow]
    BY <1>12, StatusSet DEF ApplyCommit, Replaces, References, Status
  <2>2. api' \in [Slot -> Handler]
    BY <1>12, IdleType, Went DEF ApplyCommit
  <2>3. schedule' \in [Application -> ScheduleRow]
    BY <1>12, ReplacedType DEF ApplyCommit
  <2> QED
    BY <1>12, <2>1, <2>2, <2>3 DEF ApplyCommit, TypeOK
<1>13. CASE ApplyConflict(s)
  <2>1. api' \in [Slot -> Handler]
    BY <1>13, IdleType, Went DEF ApplyConflict
  <2> QED
    BY <1>13, <2>1 DEF ApplyConflict, TypeOK, Timetable
<1>14. CASE CancelRead(s, r)
  BY <1>14, StartsType DEF CancelRead, ApiPcs
<1>15. CASE DiscardRead(s, r)
  BY <1>15, StartsType DEF DiscardRead, ApiPcs
<1>16. CASE ApplyRead(s, r)
  BY <1>16, StartsType DEF ApplyRead, ApiPcs
<1>17. CASE AdjustRead(s, r)
  <2>1. Handling("adjust", r) \in Handler /\ run[r].adj \in SUBSET Slot
    BY HandlingType DEF ApiPcs, TypeOK, RunRow
  <2>2. [Handling("adjust", r) EXCEPT !.adj = run[r].adj] \in Handler
    BY <2>1 DEF Handler
  <2>3. api' \in [Slot -> Handler]
    BY <1>17, <2>2, Went DEF AdjustRead
  <2>4. events' \in Nat
    BY <1>17, EventType DEF AdjustRead
  <2> QED
    BY <1>17, <2>3, <2>4 DEF AdjustRead, TypeOK, Timetable
<1>18. CASE ApplyLock(s, r)
  <2>1. Handling("replace_locked", r) \in Handler
    BY HandlingType DEF ApiPcs
  <2>2. [Handling("replace_locked", r) EXCEPT !.rows = Present, !.att = attended] \in Handler
    BY <1>att, <2>1 DEF Handler
  <2>3. api' \in [Slot -> Handler]
    BY <1>18, <2>2, Went DEF ApplyLock
  <2> QED
    BY <1>18, <2>3 DEF ApplyLock, TypeOK, Timetable
<1>19. CASE Abort(s)
  <2>1. api' \in [Slot -> Handler]
    BY <1>19, IdleType, Went DEF Abort
  <2>2. events' \in Nat
    BY <1>19, EventType DEF Abort
  <2> QED
    BY <1>19, <2>1, <2>2 DEF Abort, TypeOK, Timetable
<1> QED
  BY <1>1, <1>2, <1>3, <1>4, <1>5, <1>6, <1>7, <1>8, <1>9, <1>10, <1>11, <1>12, <1>13, <1>14,
     <1>15, <1>16, <1>17, <1>18, <1>19 DEF RequestStart

\* The jobs and the worker.
LEMMA JobTypes ==
  ASSUME TypeOK, NEW r \in Run, LateAdd(r) \/ StartJob(r) \/ SkipJob(r) \/ Stall(r)
  PROVE  TypeOK'
<1>1. CASE LateAdd(r)
  <2>1. job' \in [Run -> JobRow]
    BY <1>1, JobSet DEF LateAdd
  <2> QED
    BY <1>1, <2>1 DEF LateAdd, TypeOK, Timetable
<1>2. CASE StartJob(r)
  <2>1. job' \in [Run -> JobRow]
    BY <1>2, JobSet DEF StartJob
  <2>2. worker' \in Process
    BY <1>2, WorkingType DEF StartJob, WorkerPcs, Status
  <2> QED
    BY <1>2, <2>1, <2>2 DEF StartJob, TypeOK, Timetable
<1>3. CASE SkipJob(r)
  <2>1. job' \in [Run -> JobRow]
    BY <1>3, JobSet DEF SkipJob
  <2> QED
    BY <1>3, <2>1 DEF SkipJob, TypeOK, Timetable
<1>4. CASE Stall(r)
  <2>1. job \in [Run -> JobRow] /\ job[r] \in JobRow
    BY DEF TypeOK
  <2> DEFINE j == IF job[r].stalls < MaxStalls
                    THEN [st |-> "waiting", stalls |-> job[r].stalls + 1]
                    ELSE [job[r] EXCEPT !.st = "done"]
  <2>2. j \in JobRow
    BY <2>1, BoundAssumption DEF JobRow
  <2>3. job' = [job EXCEPT ![r] = j]
    BY <1>4, <2>1 DEF Stall
  <2>4. job' \in [Run -> JobRow]
    BY <2>1, <2>2, <2>3
  <2>5. events' \in Nat
    BY <1>4, EventType DEF Stall, TypeOK
  <2> QED
    BY <1>4, <2>4, <2>5 DEF Stall, TypeOK, Timetable
<1> QED
  BY <1>1, <1>2, <1>3, <1>4

LEMMA WorkerTypes ==
  ASSUME TypeOK, References,
         WorkerStep \/ Throws \/ CronScan \/ MarkFailedFails \/ WorkerCrash
  PROVE  TypeOK'
<1>w. worker \in Process /\ worker.pc \in WorkerPcs /\ run \in [Run -> RunRow]
  BY DEF TypeOK, Process
<1>r. worker.pc # "idle" => worker.run \in Run
  BY DEF References
<1>1. CASE ClaimRead
  <2>1. worker.run \in Run /\ run[worker.run].status \in Status
    BY <1>1, <1>w, <1>r DEF ClaimRead, RunRow
  <2>2. job' \in [Run -> JobRow]
    BY <1>1, <2>1, JobFinished DEF ClaimRead, TypeOK
  <2>3. worker' \in Process
    BY <1>1, <2>1, WorkingType, RestingType DEF ClaimRead, WorkerPcs
  <2> QED
    BY <1>1, <2>2, <2>3 DEF ClaimRead, TypeOK, Timetable
<1>2. CASE Claim
  <2>1. worker.run \in Run
    BY <1>2, <1>r DEF Claim
  <2>2. run' \in [Run -> RunRow]
    BY <1>2, <2>1, StatusSet DEF Claim, Status
  <2>3. worker' \in Process
    BY <1>2, <2>1, WorkingType DEF Claim, WorkerPcs, Status
  <2> QED
    BY <1>2, <2>2, <2>3 DEF Claim, TypeOK, Timetable
<1>3. CASE ClaimConflict
  <2>1. worker' \in Process
    BY <1>3, <1>r, WorkingType DEF ClaimConflict, WorkerPcs, Status
  <2> QED
    BY <1>3, <2>1 DEF ClaimConflict, TypeOK, Timetable
<1>4. CASE ClaimCrashed
  <2>1. worker.run \in Run
    BY <1>4, <1>r DEF ClaimCrashed
  <2>2. run' \in [Run -> RunRow]
    BY <1>4, <2>1, StatusSet DEF ClaimCrashed, Status
  <2>3. job' \in [Run -> JobRow]
    BY <1>4, <2>1, JobFinished DEF ClaimCrashed
  <2> QED
    BY <1>4, <2>2, <2>3, RestingType DEF ClaimCrashed, TypeOK, Timetable
<1>5. CASE Solve
  <2>1. PICK pc \in {"persist", "fail"} : worker' = Working(pc, worker.run, "absent")
    BY <1>5 DEF Solve
  <2>2. worker' \in Process
    BY <1>5, <1>r, <2>1, WorkingType DEF Solve, WorkerPcs, Status
  <2> QED
    BY <1>5, <2>2 DEF Solve, TypeOK, Timetable
<1>6. CASE Persist
  <2> DEFINE r == worker.run
             row == [run[r] EXCEPT !.status = "completed", !.results = run[r].results + 1]
  <2>1. r \in Run /\ run[r] \in RunRow
    BY <1>6, <1>r, <1>w DEF Persist
  <2>2. row \in RunRow
    <3>1. run[r].results + 1 \in Nat
      BY <2>1 DEF RunRow
    <3>2. \A n \in Nat : [run[r] EXCEPT !.status = "completed", !.results = n] \in RunRow
      BY <2>1 DEF RunRow, Status
    <3> QED
      BY <3>1, <3>2
  <2>3. run' = run \/ run' = [run EXCEPT ![r] = row]
    BY <1>6, <1>w, <2>1 DEF Persist
  <2>4. run' \in [Run -> RunRow]
    BY <1>w, <2>1, <2>2, <2>3
  <2>5. worker' \in Process
    BY <1>6, <2>1, WorkingType DEF Persist, WorkerPcs, Status
  <2> QED
    BY <1>6, <2>4, <2>5 DEF Persist, TypeOK, Timetable
<1>7. CASE OuterCommit
  <2>1. job' \in [Run -> JobRow]
    BY <1>7, <1>r, JobFinished DEF OuterCommit
  <2> QED
    BY <1>7, <2>1, RestingType DEF OuterCommit, TypeOK, Timetable
<1>8. CASE MarkFailed
  <2>1. worker.run \in Run
    BY <1>8, <1>r DEF MarkFailed
  <2>2. run' \in [Run -> RunRow]
    BY <1>8, <2>1, StatusSet DEF MarkFailed, Status
  <2>3. job' \in [Run -> JobRow]
    BY <1>8, <2>1, JobFinished DEF MarkFailed
  <2> QED
    BY <1>8, <2>2, <2>3, RestingType DEF MarkFailed, TypeOK, Timetable
<1>9. CASE CronWrite
  <2>1. run' \in [Run -> RunRow]
    BY <1>9, <1>r, StatusSet DEF CronWrite, Status
  <2> QED
    BY <1>9, <2>1, RestingType DEF CronWrite, TypeOK, Timetable
<1>10. CASE Throws
  <2>1. worker' \in Process
    BY <1>10, <1>r, WorkingType DEF Throws, WorkerPcs, Status
  <2>2. events' \in Nat
    BY <1>10, EventType DEF Throws
  <2> QED
    BY <1>10, <2>1, <2>2 DEF Throws, TypeOK, Timetable
<1>11. CASE CronScan
  <2>1. PICK r \in Run : worker' = Working("reap", r, "absent")
    BY <1>11 DEF CronScan
  <2>2. worker' \in Process
    BY <2>1, WorkingType DEF WorkerPcs, Status
  <2> QED
    BY <1>11, <2>2 DEF CronScan, TypeOK, Timetable
<1>12. CASE MarkFailedFails
  <2>1. job' \in [Run -> JobRow]
    BY <1>12, <1>r, JobFinished DEF MarkFailedFails
  <2>2. events' \in Nat
    BY <1>12, EventType DEF MarkFailedFails
  <2> QED
    BY <1>12, <2>1, <2>2, RestingType DEF MarkFailedFails, TypeOK, Timetable
<1>13. CASE WorkerCrash
  <2>1. boot' \in Reaper
    BY <1>13, WorkingType DEF WorkerCrash, Status
  <2>2. events' \in Nat
    BY <1>13, EventType DEF WorkerCrash
  <2> QED
    BY <1>13, <2>1, <2>2, RestingType DEF WorkerCrash, TypeOK, Timetable
<1> QED
  BY <1>1, <1>2, <1>3, <1>4, <1>5, <1>6, <1>7, <1>8, <1>9, <1>10, <1>11, <1>12, <1>13
     DEF WorkerStep

LEMMA OtherTypes ==
  ASSUME TypeOK, References, NEW b \in Application,
         BootScan \/ BootWrite \/ AttendanceTaken(b) \/ ToggleModule
  PROVE  TypeOK'
<1>1. CASE BootScan
  <2>1. boot' \in Reaper
    BY <1>1, WorkingType DEF BootScan, Status
  <2> QED
    BY <1>1, <2>1 DEF BootScan, TypeOK, Timetable
<1>2. CASE BootWrite
  <2>1. boot.run \in Run
    BY <1>2 DEF BootWrite, References
  <2>2. run' \in [Run -> RunRow]
    BY <1>2, <2>1, StatusSet DEF BootWrite, Status
  <2>3. boot' \in Reaper
    BY <1>2, WorkingType DEF BootWrite, Status
  <2> QED
    BY <1>2, <2>2, <2>3 DEF BootWrite, TypeOK, Timetable
<1>3. CASE AttendanceTaken(b)
  BY <1>3, EventType DEF AttendanceTaken, TypeOK
<1>4. CASE ToggleModule
  BY <1>4, EventType DEF ToggleModule, TypeOK, Timetable
<1> QED
  BY <1>1, <1>2, <1>3, <1>4

-----------------------------------------------------------------------------
(* What a step does to the rows of scheduling_runs                               *)

\* What any step may do to the row of run r.
Moves(r) ==
  /\ \/ run'[r].status = run[r].status
     \/ run[r].status = "absent" /\ run'[r].status = "blocked"
     \/ run[r].status = "absent" /\ run'[r].status = "queued" /\ NoOtherActive(r)
     \/ run[r].status \notin {"absent", "blocked"} /\ run'[r].status = "failed"
     \/ run[r].results = 1 /\ run'[r].status \in {"discarded", "applied"}
     \/ /\ run[r].status \in {"queued", "failed"} /\ run'[r].status = "running"
        /\ run[r].results = 0 /\ run[r].cancelled # "running" /\ NoOtherActive(r)
        /\ worker.pc = "claimed" /\ worker'.pc = "solve"
     \/ run[r].status = "running" /\ run'[r].status = "completed" /\ worker.pc = "persist"
  /\ run'[r].results = IF run[r].status = "running" /\ run'[r].status = "completed"
                         THEN run[r].results + 1 ELSE run[r].results
  /\ \/ run'[r].cancelled = run[r].cancelled
     \/ run[r].status \in Active /\ run'[r].status = "failed" /\ run'[r].cancelled = run[r].status

OnlyRow(r) == (\A q \in Run \ {r} : run'[q] = run[q]) /\ Moves(r)

\* A run that is failed was inserted; nothing else about it matters.
LEMMA FailedMoves ==
  ASSUME TypeOK, NEW r \in Run, run[r].status \notin {"absent", "blocked"}, SetStatus(r, "failed")
  PROVE  OnlyRow(r)
<1>1. /\ \A q \in Run \ {r} : run'[q] = run[q]
      /\ run'[r].status = "failed"
      /\ run'[r].results = run[r].results /\ run'[r].cancelled = run[r].cancelled
  BY StatusSet DEF Status
<1> QED
  BY <1>1 DEF OnlyRow, Moves

\* A cancel, a discard or a failed enqueue.
LEMMA OverwriteMoves ==
  ASSUME IndInv, NEW s \in Slot, MarkUnqueued(s) \/ CancelWrite(s) \/ DiscardWrite(s)
  PROVE  OnlyRow(api[s].run)
<1> DEFINE r == api[s].run
<1>i. TypeOK /\ References /\ ReadersSawResult
  BY DEF IndInv
<1>1. CASE MarkUnqueued(s)
  <2>1. Overwrite(s, "unqueued", "failed")
    BY <1>1 DEF MarkUnqueued
  <2>2. /\ \A q \in Run \ {r} : run'[q] = run[q]
        /\ run'[r].status = "failed"
        /\ run'[r].results = run[r].results /\ run'[r].cancelled = run[r].cancelled
    BY <1>i, <2>1, OverwriteType DEF ApiPcs, Status
  <2>3. run[r].status \notin {"absent", "blocked"}
    BY <1>i, <2>1 DEF ReadersSawResult, Submitted, Overwrite
  <2> QED
    BY <2>2, <2>3 DEF OnlyRow, Moves
<1>2. CASE CancelWrite(s)
  <2>1. Overwrite(s, "cancel", "failed")
    BY <1>2 DEF CancelWrite
  <2>2. /\ \A q \in Run \ {r} : run'[q] = run[q]
        /\ run'[r].status = "failed" /\ run'[r].results = run[r].results
        /\ run'[r].cancelled = IF run[r].status \in Active THEN run[r].status
                                 ELSE run[r].cancelled
    BY <1>i, <2>1, OverwriteType DEF ApiPcs, Status
  <2>3. run[r].status \notin {"absent", "blocked"}
    BY <1>i, <2>1 DEF ReadersSawResult, Submitted, Overwrite
  <2> QED
    BY <2>2, <2>3 DEF OnlyRow, Moves
<1>3. CASE DiscardWrite(s)
  <2>1. Overwrite(s, "discard", "discarded")
    BY <1>3 DEF DiscardWrite
  <2>2. /\ \A q \in Run \ {r} : run'[q] = run[q]
        /\ run'[r].status = "discarded"
        /\ run'[r].results = run[r].results /\ run'[r].cancelled = run[r].cancelled
    BY <1>i, <2>1, OverwriteType DEF ApiPcs, Status
  <2>3. run[r].results = 1
    BY <1>i, <2>1 DEF ReadersSawResult, HasResult, Overwrite
  <2> QED
    BY <2>2, <2>3 DEF OnlyRow, Moves
<1> QED
  BY <1>1, <1>2, <1>3

\* The inserts, an adjustment and an application.
LEMMA RequestMoves ==
  ASSUME IndInv, NEW s \in Slot, NEW r \in Run,
         TriggerInsert(s, r) \/ TriggerBlocked(s, r) \/ AdjustWrite(s) \/ ApplyCommit(s)
  PROVE  \E q \in Run : OnlyRow(q)
<1>i. TypeOK /\ References /\ ReadersSawResult
  BY DEF IndInv
<1>1. CASE TriggerInsert(s, r)
  <2>1. /\ \A q \in Run \ {r} : run'[q] = run[q]
        /\ run'[r].status = "queued"
        /\ run'[r].results = run[r].results /\ run'[r].cancelled = run[r].cancelled
    BY <1>1, <1>i, StatusSet DEF TriggerInsert, Status
  <2>2. run[r].status = "absent" /\ NoOtherActive(r)
    BY <1>1 DEF TriggerInsert, IndexAllows
  <2> QED
    BY <2>1, <2>2 DEF OnlyRow, Moves
<1>2. CASE TriggerBlocked(s, r)
  <2>1. /\ \A q \in Run \ {r} : run'[q] = run[q]
        /\ run'[r].status = "blocked"
        /\ run'[r].results = run[r].results /\ run'[r].cancelled = run[r].cancelled
    BY <1>2, <1>i, StatusSet DEF TriggerBlocked, Status
  <2>2. run[r].status = "absent"
    BY <1>2 DEF TriggerBlocked
  <2> QED
    BY <2>1, <2>2 DEF OnlyRow, Moves
<1>3. CASE AdjustWrite(s)
  <2> DEFINE q == api[s].run
  <2>1. q \in Run /\ run \in [Run -> RunRow] /\ run[q] \in RunRow
    BY <1>3, <1>i DEF AdjustWrite, References, TypeOK
  <2>2. run' = [run EXCEPT ![q] = [run[q] EXCEPT !.adj = api[s].adj \cup {s}]]
    BY <1>3, <2>1 DEF AdjustWrite
  <2>3. run'[q] = [run[q] EXCEPT !.adj = api[s].adj \cup {s}]
    BY <2>1, <2>2
  <2>4. /\ run'[q].status = run[q].status /\ run'[q].results = run[q].results
        /\ run'[q].cancelled = run[q].cancelled
    BY <2>1, <2>3 DEF RunRow
  <2>5. \A o \in Run \ {q} : run'[o] = run[o]
    BY <2>1, <2>2
  <2> QED
    BY <2>1, <2>4, <2>5 DEF OnlyRow, Moves
<1>4. CASE ApplyCommit(s)
  <2> DEFINE q == api[s].run
  <2>1. q \in Run /\ run[q].results = 1
    BY <1>4, <1>i DEF ApplyCommit, Replaces, References, ReadersSawResult, HasResult
  <2>2. /\ \A o \in Run \ {q} : run'[o] = run[o]
        /\ run'[q].status = "applied"
        /\ run'[q].results = run[q].results /\ run'[q].cancelled = run[q].cancelled
    BY <1>4, <1>i, <2>1, StatusSet DEF ApplyCommit, Status
  <2> QED
    BY <2>1, <2>2 DEF OnlyRow, Moves
<1> QED
  BY <1>1, <1>2, <1>3, <1>4

\* The worker and the reapers.
LEMMA WorkerMoves ==
  ASSUME IndInv, Claim \/ ClaimCrashed \/ Persist \/ MarkFailed \/ CronWrite \/ BootWrite
  PROVE  run' = run \/ \E r \in Run : OnlyRow(r)
<1> DEFINE r == worker.run
<1>i. TypeOK /\ References /\ SolvedOnce
  BY DEF IndInv
<1>w. worker.pc # "idle" => r \in Run /\ run[r].status \notin {"absent", "blocked"}
  BY <1>i DEF References, SolvedOnce
<1>1. CASE Claim
  <2>1. r \in Run /\ worker.pc = "claimed" /\ worker.seen = "queued" /\ NoOtherActive(r)
    BY <1>1, <1>w DEF Claim, IndexAllows
  <2>2. /\ run[r].status \in {"queued", "failed"} /\ run[r].results = 0
        /\ run[r].cancelled # "running"
    BY <1>i, <2>1 DEF SolvedOnce
  <2>3. /\ \A q \in Run \ {r} : run'[q] = run[q]
        /\ run'[r].status = "running"
        /\ run'[r].results = run[r].results /\ run'[r].cancelled = run[r].cancelled
    BY <1>1, <1>i, <2>1, StatusSet DEF Claim, Status
  <2>4. worker'.pc = "solve"
    BY <1>1 DEF Claim, Working
  <2> QED
    BY <2>1, <2>2, <2>3, <2>4 DEF OnlyRow, Moves
<1>2. CASE Persist
  <2>1. r \in Run /\ run \in [Run -> RunRow] /\ run[r] \in RunRow
    BY <1>2, <1>i, <1>w DEF Persist, TypeOK
  <2>2. CASE run[r].status = "running"
    <3>1. run' = [run EXCEPT ![r] = [run[r] EXCEPT !.status = "completed",
                                                   !.results = run[r].results + 1]]
      BY <1>2, <2>1, <2>2 DEF Persist, Persistable
    <3>2. run'[r] = [run[r] EXCEPT !.status = "completed", !.results = run[r].results + 1]
      BY <2>1, <3>1
    <3>3. /\ run'[r].status = "completed" /\ run'[r].results = run[r].results + 1
          /\ run'[r].cancelled = run[r].cancelled
      BY <2>1, <3>2 DEF RunRow
    <3>4. \A q \in Run \ {r} : run'[q] = run[q]
      BY <2>1, <3>1
    <3> QED
      BY <1>2, <2>1, <2>2, <3>3, <3>4 DEF OnlyRow, Moves, Persist
  <2>3. CASE run[r].status # "running"
    BY <1>2, <2>3 DEF Persist, Persistable
  <2> QED
    BY <2>2, <2>3
<1>3. CASE ClaimCrashed
  BY <1>3, <1>i, <1>w, FailedMoves DEF ClaimCrashed
<1>4. CASE MarkFailed
  BY <1>4, <1>i, <1>w, FailedMoves DEF MarkFailed
<1>5. CASE CronWrite
  BY <1>5, <1>i, <1>w, FailedMoves DEF CronWrite
<1>6. CASE BootWrite
  <2>1. boot.run \in Run /\ run[boot.run].status \notin {"absent", "blocked"}
    BY <1>6, <1>i DEF BootWrite, References, SolvedOnce
  <2> QED
    BY <1>6, <1>i, <2>1, FailedMoves DEF BootWrite
<1> QED
  BY <1>1, <1>2, <1>3, <1>4, <1>5, <1>6

\* At most one row changes in a step, and in one of the ways of Moves.
LEMMA RunStep ==
  ASSUME IndInv, [Next]_vars
  PROVE  run' = run \/ \E r \in Run : OnlyRow(r)
<1>0. CASE UNCHANGED vars
  BY <1>0 DEF vars
<1>1. ASSUME NEW s \in Slot, RequestStep(s) PROVE run' = run \/ \E r \in Run : OnlyRow(r)
  <2>i. References
    BY DEF IndInv
  <2>1. ASSUME NEW r \in Run, TriggerInsert(s, r) \/ TriggerBlocked(s, r)
        PROVE  \E q \in Run : OnlyRow(q)
    BY <2>1, RequestMoves
  <2>2. CASE AdjustWrite(s) \/ ApplyCommit(s)
    <3>1. api[s].run \in Run
      BY <2>2, <2>i DEF References, AdjustWrite, ApplyCommit, Replaces
    <3> QED
      BY <2>2, <3>1, RequestMoves
  <2>3. CASE MarkUnqueued(s) \/ CancelWrite(s) \/ DiscardWrite(s)
    <3>1. api[s].run \in Run
      BY <2>3, <2>i DEF References, MarkUnqueued, CancelWrite, DiscardWrite, Overwrite
    <3> QED
      BY <2>3, <3>1, OverwriteMoves
  <2>4. CASE TriggerConflict(s) \/ Enqueue(s) \/ EnqueueFails(s) \/ ApplyBegin(s) \/ ApplyConflict(s)
    BY <2>4 DEF TriggerConflict, Enqueue, EnqueueFails, ApplyBegin, ApplyConflict
  <2> QED
    BY <1>1, <2>1, <2>2, <2>3, <2>4 DEF RequestStep
<1>2. ASSUME NEW s \in Slot, Abort(s) \/ TriggerRead(s) PROVE run' = run
  BY <1>2 DEF Abort, TriggerRead, Starts
<1>3. ASSUME NEW s \in Slot, NEW r \in Run, RequestStart(s, r) PROVE run' = run
  BY <1>3 DEF RequestStart, CancelRead, DiscardRead, AdjustRead, ApplyLock, ApplyRead, Starts
<1>4. ASSUME NEW r \in Run, LateAdd(r) \/ StartJob(r) \/ SkipJob(r) \/ Stall(r) PROVE run' = run
  BY <1>4 DEF LateAdd, StartJob, SkipJob, Stall
<1>5. CASE WorkerStep
  <2>1. CASE Claim \/ ClaimCrashed \/ Persist \/ MarkFailed \/ CronWrite
    BY <2>1, WorkerMoves
  <2>2. CASE ClaimRead \/ ClaimConflict \/ Solve \/ OuterCommit
    BY <2>2 DEF ClaimRead, ClaimConflict, Solve, OuterCommit
  <2> QED
    BY <1>5, <2>1, <2>2 DEF WorkerStep
<1>6. CASE CronScan \/ Throws \/ MarkFailedFails \/ WorkerCrash \/ BootScan \/ ToggleModule
  BY <1>6 DEF CronScan, Throws, MarkFailedFails, WorkerCrash, BootScan, ToggleModule
<1>7. CASE BootWrite
  BY <1>7, WorkerMoves
<1>8. ASSUME NEW b \in Application, AttendanceTaken(b) PROVE run' = run
  BY <1>8 DEF AttendanceTaken
<1> QED
  BY <1>0, <1>1, <1>2, <1>3, <1>4, <1>5, <1>6, <1>7, <1>8 DEF Next

\* So every row moves, if only by staying as it is.
LEMMA EveryRowMoves ==
  ASSUME IndInv, [Next]_vars, NEW r \in Run
  PROVE  Moves(r) \/ run'[r] = run[r]
BY RunStep DEF OnlyRow

\* Results are not withdrawn and runs stay inserted.
LEMMA Monotone ==
  ASSUME IndInv, [Next]_vars, NEW r \in Run
  PROVE  /\ run[r].results = 1 => run'[r].results = 1
         /\ run[r].results > 0 => run'[r].results > 0
         /\ run[r].status \notin {"absent", "blocked"} => run'[r].status \notin {"absent", "blocked"}
<1>1. Fresh(r) => run[r].results = 0
  BY DEF IndInv, SolvedOnce
<1>2. run[r].results \in Nat
  BY DEF IndInv, TypeOK, RunRow
<1> QED
  BY <1>1, <1>2, EveryRowMoves DEF Moves, Fresh

\* A run becomes active only while no other one is.
LEMMA OneActiveRunStep ==
  ASSUME IndInv, [Next]_vars
  PROVE  OneActiveRun'
<1>i. OneActiveRun
  BY DEF IndInv
<1>1. CASE run' = run
  BY <1>i, <1>1 DEF OneActiveRun
<1>2. ASSUME NEW r \in Run, OnlyRow(r) PROVE OneActiveRun'
  <2>1. run'[r].status \in Active => run[r].status \in Active \/ NoOtherActive(r)
    BY <1>2 DEF OnlyRow, Moves, Active
  <2>2. run'[r].status \in Active => \A q \in Run \ {r} : run'[q].status \notin Active
    BY <1>i, <1>2, <2>1 DEF OnlyRow, OneActiveRun, NoOtherActive
  <2> QED
    BY <1>i, <1>2, <2>2 DEF OnlyRow, OneActiveRun
<1> QED
  BY <1>1, <1>2, RunStep

\* A run that was cancelled while it was running is never touched again.
LEMMA CancelHoldsStep ==
  ASSUME IndInv, [Next]_vars
  PROVE  CancelHolds'
<1> SUFFICES ASSUME NEW r \in Run, run'[r].cancelled = "running"
             PROVE  run'[r].status = "failed" /\ run'[r].results = 0
  BY DEF CancelHolds
<1>1. run[r].cancelled = "running" => run[r].status = "failed" /\ run[r].results = 0
  BY DEF IndInv, CancelHolds
<1>2. Fresh(r) => run[r].results = 0
  BY DEF IndInv, SolvedOnce
<1>3. CASE run'[r] = run[r]
  BY <1>1, <1>3
<1>4. CASE Moves(r)
  <2>1. CASE run'[r].cancelled = run[r].cancelled
    BY <1>1, <1>4, <2>1 DEF Moves
  <2>2. CASE run[r].status \in Active /\ run'[r].status = "failed"
    BY <1>2, <1>4, <2>2 DEF Moves, Fresh, Active
  <2> QED
    BY <1>4, <2>1, <2>2 DEF Moves
<1> QED
  BY <1>3, <1>4, EveryRowMoves

\* A run has a result exactly from completed on, and only one.
LEMMA RowsSolvedOnce ==
  ASSUME IndInv, [Next]_vars, NEW r \in Run
  PROVE  /\ Fresh(r)' => run'[r].results = 0
         /\ run'[r].status \in {"completed", "applied", "discarded"} => run'[r].results = 1
         /\ run'[r].results <= 1
<1>1. /\ Fresh(r) => run[r].results = 0
      /\ run[r].status \in {"completed", "applied", "discarded"} => run[r].results = 1
      /\ run[r].results <= 1
  BY DEF IndInv, SolvedOnce
<1>2. CASE run'[r] = run[r]
  BY <1>1, <1>2 DEF Fresh
<1>3. CASE Moves(r)
  BY <1>1, <1>3 DEF Moves, Fresh
<1> QED
  BY <1>2, <1>3, EveryRowMoves

-----------------------------------------------------------------------------
(* What a step does to the requests, the jobs, the worker and the timetable       *)

\* What any step may do to request t.
Requests(t) ==
  \/ api'[t] = api[t]
  \/ api'[t].pc \in {"idle", "insert"} /\ api'[t].att = {}
  \/ /\ api'[t].pc = "enqueue" /\ api'[t].run \in Run /\ api'[t].att = {}
     /\ run'[api'[t].run].status = "queued"
  \/ /\ api'[t].pc = "unqueued" /\ api[t].pc = "enqueue"
     /\ api'[t].run = api[t].run /\ api'[t].att = api[t].att
  \/ /\ api'[t].pc = "cancel" /\ api'[t].run \in Run /\ api'[t].att = {}
     /\ run[api'[t].run].status \in Active
  \/ /\ api'[t].pc \in {"adjust", "discard", "apply"} /\ api'[t].run \in Run /\ api'[t].att = {}
     /\ run[api'[t].run].status = "completed"
  \/ /\ api'[t].pc \in {"replace", "replace_locked"} /\ api'[t].run \in Run
     /\ run[api'[t].run].results = 1
     /\ api'[t].rows = Present /\ api'[t].att = attended /\ UNCHANGED Timetable

\* A request that goes on leaves the others alone.
LEMMA OthersStay ==
  ASSUME TypeOK, NEW s \in Slot, NEW h \in Handler, Goto(s, h), Requests(s), NEW t \in Slot
  PROVE  Requests(t)
<1>1. CASE t = s
  BY <1>1
<1>2. CASE t # s
  BY <1>2, Went DEF Requests
<1> QED
  BY <1>1, <1>2

LEMMA StartsRequests ==
  ASSUME TypeOK, NEW s \in Slot, NEW r \in Run, NEW t \in Slot,
         NEW pc \in {"cancel", "discard", "apply"}, Starts(s, r, pc),
         run[r].status = IF pc = "cancel" THEN run[r].status ELSE "completed",
         pc = "cancel" => run[r].status \in Active
  PROVE  Requests(t)
<1>1. Handling(pc, r) \in Handler /\ Goto(s, Handling(pc, r))
  BY HandlingType DEF Starts, ApiPcs
<1>2. api'[s] = Handling(pc, r)
  BY <1>1, Went
<1>3. /\ api'[s].pc = pc /\ api'[s].run = r /\ api'[s].att = {}
  BY <1>2, HandlingType DEF ApiPcs
<1>4. Requests(s)
  BY <1>3 DEF Requests
<1> QED
  BY <1>1, <1>4, OthersStay

LEMMA RequestsStep ==
  ASSUME IndInv, [Next]_vars, NEW t \in Slot
  PROVE  Requests(t)
<1>i. TypeOK /\ References /\ SolvedOnce /\ ReadersSawResult
  BY DEF IndInv
<1>0. CASE UNCHANGED api
  BY <1>0 DEF Requests
<1>idle. ASSUME NEW s \in Slot, Goto(s, Idle) PROVE Requests(t)
  <2>1. api'[s] = Idle
    BY <1>i, <1>idle, IdleType, Went
  <2>2. Requests(s)
    BY <2>1, IdleType DEF Requests
  <2> QED
    BY <1>i, <1>idle, <2>2, IdleType, OthersStay
<1>1. ASSUME NEW s \in Slot, TriggerRead(s) PROVE Requests(t)
  <2>1. Handling("insert", None) \in Handler /\ Goto(s, Handling("insert", None))
    BY <1>1, HandlingType DEF TriggerRead, Starts, ApiPcs
  <2>2. api'[s] = Handling("insert", None)
    BY <1>i, <2>1, Went
  <2>3. Requests(s)
    BY <2>2, HandlingType DEF Requests, ApiPcs
  <2> QED
    BY <1>i, <2>1, <2>3, OthersStay
<1>2. ASSUME NEW s \in Slot, NEW r \in Run, TriggerInsert(s, r) PROVE Requests(t)
  <2>1. Handling("enqueue", r) \in Handler /\ Goto(s, Handling("enqueue", r))
    BY <1>2, HandlingType DEF TriggerInsert, ApiPcs
  <2>2. api'[s] = Handling("enqueue", r)
    BY <1>i, <2>1, Went
  <2>3. run'[r].status = "queued"
    BY <1>i, <1>2, StatusSet DEF TriggerInsert, Status
  <2>4. Requests(s)
    BY <2>2, <2>3, HandlingType DEF Requests, ApiPcs
  <2> QED
    BY <1>i, <2>1, <2>4, OthersStay
<1>3. ASSUME NEW s \in Slot, NEW r \in Run, TriggerBlocked(s, r) PROVE Requests(t)
  BY <1>3, <1>idle DEF TriggerBlocked
<1>4. ASSUME NEW s \in Slot,
             \/ TriggerConflict(s) \/ Enqueue(s) \/ MarkUnqueued(s) \/ CancelWrite(s)
             \/ DiscardWrite(s) \/ AdjustWrite(s) \/ ApplyCommit(s) \/ ApplyConflict(s) \/ Abort(s)
      PROVE  Requests(t)
  BY <1>4, <1>idle DEF TriggerConflict, Enqueue, MarkUnqueued, CancelWrite, DiscardWrite, Overwrite,
     AdjustWrite, ApplyCommit, ApplyConflict, Abort
<1>5. ASSUME NEW s \in Slot, EnqueueFails(s) PROVE Requests(t)
  <2> DEFINE h == [api[s] EXCEPT !.pc = "unqueued"]
  <2>1. api[s] \in Handler /\ api[s].pc = "enqueue" /\ Goto(s, h)
    BY <1>i, <1>5 DEF TypeOK, EnqueueFails
  <2>2. h \in Handler /\ h.pc = "unqueued" /\ h.run = api[s].run /\ h.att = api[s].att
    BY <2>1 DEF Handler, ApiPcs
  <2> HIDE DEF h
  <2>3. api'[s] = h
    BY <1>i, <2>1, <2>2, Went
  <2>4. Requests(s)
    BY <2>1, <2>2, <2>3 DEF Requests
  <2> QED
    BY <1>i, <2>1, <2>2, <2>4, OthersStay
<1>6. ASSUME NEW s \in Slot, ApplyBegin(s) PROVE Requests(t)
  <2> DEFINE h == [api[s] EXCEPT !.pc = "replace", !.rows = Present, !.att = attended]
  <2>1. api[s] \in Handler /\ api[s].pc = "apply" /\ Goto(s, h)
    BY <1>i, <1>6 DEF TypeOK, ApplyBegin
  <2>2. h \in Handler /\ h.pc = "replace" /\ h.run = api[s].run /\ h.rows = Present /\ h.att = attended
    BY <1>i, <2>1 DEF Handler, ApiPcs, TypeOK, Present
  <2> HIDE DEF h
  <2>3. api'[s] = h
    BY <1>i, <2>1, <2>2, Went
  <2>4. api[s].run \in Run /\ run[api[s].run].results = 1
    BY <1>i, <2>1 DEF References, ReadersSawResult, HasResult
  <2>5. Requests(s)
    BY <1>6, <2>2, <2>3, <2>4 DEF Requests, ApplyBegin
  <2> QED
    BY <1>i, <2>1, <2>2, <2>5, OthersStay
<1>7. ASSUME NEW s \in Slot, NEW r \in Run, CancelRead(s, r) \/ DiscardRead(s, r) \/ ApplyRead(s, r)
      PROVE  Requests(t)
  BY <1>i, <1>7, StartsRequests DEF CancelRead, DiscardRead, ApplyRead
<1>8. ASSUME NEW s \in Slot, NEW r \in Run, AdjustRead(s, r) PROVE Requests(t)
  <2> DEFINE h == [Handling("adjust", r) EXCEPT !.adj = run[r].adj]
  <2>1. Handling("adjust", r) \in Handler /\ run[r].adj \in SUBSET Slot /\ Goto(s, h)
    BY <1>i, <1>8, HandlingType DEF ApiPcs, TypeOK, RunRow, AdjustRead
  <2>2. Handling("adjust", r).pc = "adjust" /\ Handling("adjust", r).run = r
        /\ Handling("adjust", r).att = {}
    BY HandlingType DEF ApiPcs
  <2>3. h \in Handler /\ h.pc = "adjust" /\ h.run = r /\ h.att = {}
    BY <2>1, <2>2 DEF Handler
  <2> HIDE DEF h
  <2>4. api'[s] = h
    BY <1>i, <2>1, <2>3, Went
  <2>5. Requests(s)
    BY <1>8, <2>3, <2>4 DEF Requests, AdjustRead
  <2> QED
    BY <1>i, <2>1, <2>3, <2>5, OthersStay
<1>9. ASSUME NEW s \in Slot, NEW r \in Run, ApplyLock(s, r) PROVE Requests(t)
  <2> DEFINE h == [Handling("replace_locked", r) EXCEPT !.rows = Present, !.att = attended]
  <2>1. Handling("replace_locked", r) \in Handler /\ Goto(s, h)
    BY <1>9, HandlingType DEF ApiPcs, ApplyLock
  <2>2. Handling("replace_locked", r).pc = "replace_locked" /\ Handling("replace_locked", r).run = r
    BY HandlingType DEF ApiPcs
  <2>3. /\ h \in Handler /\ h.pc = "replace_locked" /\ h.run = r
        /\ h.rows = Present /\ h.att = attended
    BY <1>i, <2>1, <2>2 DEF Handler, TypeOK, Present
  <2> HIDE DEF h
  <2>4. api'[s] = h
    BY <1>i, <2>1, <2>3, Went
  <2>5. run[r].results = 1
    BY <1>i, <1>9 DEF ApplyLock, SolvedOnce
  <2>6. Requests(s)
    BY <1>9, <2>3, <2>4, <2>5 DEF Requests, ApplyLock
  <2> QED
    BY <1>i, <2>1, <2>3, <2>6, OthersStay
<1>10. ASSUME NEW r \in Run, LateAdd(r) \/ StartJob(r) \/ SkipJob(r) \/ Stall(r) PROVE UNCHANGED api
  BY <1>10 DEF LateAdd, StartJob, SkipJob, Stall
<1>11. CASE WorkerStep
  BY <1>0, <1>11 DEF WorkerStep, ClaimRead, Claim, ClaimConflict, ClaimCrashed, Solve, Persist,
     OuterCommit, MarkFailed, CronWrite
<1>12. CASE CronScan \/ Throws \/ MarkFailedFails \/ WorkerCrash \/ BootScan \/ BootWrite \/ ToggleModule
  BY <1>0, <1>12 DEF CronScan, Throws, MarkFailedFails, WorkerCrash, BootScan, BootWrite, ToggleModule
<1>13. ASSUME NEW b \in Application, AttendanceTaken(b) PROVE UNCHANGED api
  BY <1>13 DEF AttendanceTaken
<1>14. CASE UNCHANGED vars
  BY <1>0, <1>14 DEF vars
<1> QED
  BY <1>0, <1>1, <1>2, <1>3, <1>4, <1>5, <1>6, <1>7, <1>8, <1>9, <1>10, <1>11, <1>12, <1>13, <1>14
     DEF Next, RequestStep, RequestStart

\* What any step may do to the worker: rest, take a job, go on with it, or reap.
Works ==
  \/ worker' = worker
  \/ worker'.pc = "idle"
  \/ /\ worker'.pc = "claim" /\ worker'.run \in Run /\ UNCHANGED run
     /\ job[worker'.run].st = "waiting"
  \/ /\ worker'.pc = "claimed" /\ worker.pc = "claim" /\ worker'.run = worker.run /\ UNCHANGED run
     /\ worker'.seen = run[worker.run].status /\ worker'.seen \in Active
  \/ /\ worker'.pc \in {"solve", "persist", "commit", "fail"} /\ worker.pc # "idle"
     /\ worker'.run = worker.run
  \/ /\ worker'.pc = "reap" /\ worker'.run \in Run /\ UNCHANGED run
     /\ run[worker'.run].status = "running"

LEMMA WorksStep ==
  ASSUME IndInv, [Next]_vars
  PROVE  Works
<1>i. TypeOK /\ References
  BY DEF IndInv
<1>0. CASE UNCHANGED worker
  BY <1>0 DEF Works
<1>rest. CASE worker' = Resting
  BY <1>rest, RestingType DEF Works
<1>1. ASSUME NEW r \in Run, StartJob(r) PROVE Works
  <2>1. worker' = Working("claim", r, "absent") /\ job[r].st = "waiting" /\ UNCHANGED run
    BY <1>1 DEF StartJob
  <2>2. worker'.pc = "claim" /\ worker'.run = r
    BY <2>1 DEF Working
  <2> QED
    BY <2>1, <2>2 DEF Works
<1>2. CASE ClaimRead
  <2>1. CASE Terminal(run[worker.run].status)
    BY <1>2, <1>rest, <2>1 DEF ClaimRead
  <2>2. CASE ~Terminal(run[worker.run].status)
    <3>1. /\ worker' = Working("claimed", worker.run, run[worker.run].status)
          /\ worker.pc = "claim" /\ UNCHANGED run /\ run[worker.run].status \in Active
      BY <1>2, <2>2 DEF ClaimRead, Terminal
    <3>2. /\ worker'.pc = "claimed" /\ worker'.run = worker.run
          /\ worker'.seen = run[worker.run].status
      BY <3>1 DEF Working
    <3> QED
      BY <3>1, <3>2 DEF Works
  <2> QED
    BY <2>1, <2>2
<1>3. ASSUME NEW pc \in {"solve", "persist", "commit", "fail"}, worker.pc # "idle",
             worker' = Working(pc, worker.run, "absent")
      PROVE  Works
  BY <1>3 DEF Works, Working
<1>4. CASE Claim \/ ClaimConflict \/ Persist \/ Throws
  BY <1>3, <1>4 DEF Claim, ClaimConflict, Persist, Throws
<1>5. CASE Solve
  BY <1>3, <1>5 DEF Solve
<1>6. CASE CronScan
  <2>1. PICK r \in Run : run[r].status = "running" /\ worker' = Working("reap", r, "absent")
    BY <1>6 DEF CronScan
  <2>2. worker'.pc = "reap" /\ worker'.run = r /\ UNCHANGED run
    BY <1>6, <2>1 DEF CronScan, Working
  <2> QED
    BY <2>1, <2>2 DEF Works
<1>7. CASE ClaimCrashed \/ OuterCommit \/ MarkFailed \/ CronWrite \/ MarkFailedFails \/ WorkerCrash
  BY <1>7, <1>rest DEF ClaimCrashed, OuterCommit, MarkFailed, CronWrite, MarkFailedFails, WorkerCrash
<1>8. ASSUME NEW s \in Slot, RequestStep(s) PROVE UNCHANGED worker
  BY <1>8 DEF RequestStep, TriggerInsert, TriggerBlocked, TriggerConflict, Enqueue, EnqueueFails,
     MarkUnqueued, CancelWrite, DiscardWrite, Overwrite, AdjustWrite, ApplyBegin, ApplyCommit,
     ApplyConflict
<1>9. ASSUME NEW s \in Slot, Abort(s) \/ TriggerRead(s) PROVE UNCHANGED worker
  BY <1>9 DEF Abort, TriggerRead, Starts
<1>10. ASSUME NEW s \in Slot, NEW r \in Run, RequestStart(s, r) PROVE UNCHANGED worker
  BY <1>10 DEF RequestStart, CancelRead, DiscardRead, AdjustRead, ApplyLock, ApplyRead, Starts
<1>11. ASSUME NEW r \in Run, LateAdd(r) \/ SkipJob(r) \/ Stall(r) PROVE UNCHANGED worker
  BY <1>11 DEF LateAdd, SkipJob, Stall
<1>12. CASE BootScan \/ BootWrite \/ ToggleModule
  BY <1>0, <1>12 DEF BootScan, BootWrite, ToggleModule
<1>13. ASSUME NEW b \in Application, AttendanceTaken(b) PROVE UNCHANGED worker
  BY <1>13 DEF AttendanceTaken
<1>14. CASE UNCHANGED vars
  BY <1>0, <1>14 DEF vars
<1> QED
  BY <1>0, <1>1, <1>2, <1>4, <1>5, <1>6, <1>7, <1>8, <1>9, <1>10, <1>11, <1>12, <1>13, <1>14
     DEF Next, WorkerStep

\* The startup reaper has found its run active.
LEMMA BootStep ==
  ASSUME IndInv, [Next]_vars
  PROVE  \/ boot' = boot \/ boot'.pc # "write"
         \/ boot'.run \in Run /\ run[boot'.run].status \in Active
<1>0. CASE UNCHANGED boot
  BY <1>0
<1>1. CASE BootScan
  <2>1. CASE boot' = Working("off", None, "absent")
    BY <2>1 DEF Working
  <2>2. ASSUME NEW r \in Run, run[r].status \in Active, boot' = Working("write", r, "absent")
        PROVE  boot'.run \in Run /\ run[boot'.run].status \in Active
    BY <2>2 DEF Working
  <2> QED
    BY <1>1, <2>1, <2>2 DEF BootScan
<1>2. CASE BootWrite \/ WorkerCrash
  BY <1>2 DEF BootWrite, WorkerCrash, Working
<1>3. ASSUME NEW s \in Slot, RequestStep(s) PROVE UNCHANGED boot
  BY <1>3 DEF RequestStep, TriggerInsert, TriggerBlocked, TriggerConflict, Enqueue, EnqueueFails,
     MarkUnqueued, CancelWrite, DiscardWrite, Overwrite, AdjustWrite, ApplyBegin, ApplyCommit,
     ApplyConflict
<1>4. ASSUME NEW s \in Slot, Abort(s) \/ TriggerRead(s) PROVE UNCHANGED boot
  BY <1>4 DEF Abort, TriggerRead, Starts
<1>5. ASSUME NEW s \in Slot, NEW r \in Run, RequestStart(s, r) PROVE UNCHANGED boot
  BY <1>5 DEF RequestStart, CancelRead, DiscardRead, AdjustRead, ApplyLock, ApplyRead, Starts
<1>6. ASSUME NEW r \in Run, LateAdd(r) \/ StartJob(r) \/ SkipJob(r) \/ Stall(r) PROVE UNCHANGED boot
  BY <1>6 DEF LateAdd, StartJob, SkipJob, Stall
<1>7. CASE WorkerStep
  BY <1>0, <1>7 DEF WorkerStep, ClaimRead, Claim, ClaimConflict, ClaimCrashed, Solve, Persist,
     OuterCommit, MarkFailed, CronWrite
<1>8. CASE CronScan \/ Throws \/ MarkFailedFails \/ ToggleModule
  BY <1>0, <1>8 DEF CronScan, Throws, MarkFailedFails, ToggleModule
<1>9. ASSUME NEW b \in Application, AttendanceTaken(b) PROVE UNCHANGED boot
  BY <1>9 DEF AttendanceTaken
<1>10. CASE UNCHANGED vars
  BY <1>0, <1>10 DEF vars
<1> QED
  BY <1>0, <1>1, <1>2, <1>3, <1>4, <1>5, <1>6, <1>7, <1>8, <1>9, <1>10 DEF Next

\* A job appears only for a run that was inserted.
LEMMA JobsStep ==
  ASSUME IndInv, [Next]_vars, NEW q \in Run, job'[q].st # "none"
  PROVE  run[q].status \notin {"absent", "blocked"}
<1>i. TypeOK /\ References /\ JobsBelong /\ ReadersSawResult
  BY DEF IndInv
<1>had. CASE job[q].st # "none"
  BY <1>i, <1>had DEF JobsBelong
<1>0. CASE UNCHANGED job
  BY <1>0, <1>had
<1>set. ASSUME NEW r \in Run, NEW st \in {"none", "late", "waiting", "active", "done"}, SetJob(r, st),
               run[r].status \notin {"absent", "blocked"}
        PROVE  run[q].status \notin {"absent", "blocked"}
  BY <1>i, <1>had, <1>set, JobSet
<1>fin. ASSUME Finished(worker.run, "done"), worker.pc # "idle"
        PROVE  run[q].status \notin {"absent", "blocked"}
  BY <1>i, <1>had, <1>fin, JobFinished DEF References
<1>1. ASSUME NEW s \in Slot, Enqueue(s) \/ EnqueueFails(s)
      PROVE  run[q].status \notin {"absent", "blocked"}
  <2>1. api[s].run \in Run /\ run[api[s].run].status \notin {"absent", "blocked"}
    BY <1>i, <1>1 DEF References, ReadersSawResult, Submitted, Enqueue, EnqueueFails
  <2> QED
    BY <1>1, <1>set, <2>1 DEF Enqueue, EnqueueFails
<1>2. ASSUME NEW r \in Run, LateAdd(r) \/ StartJob(r) \/ SkipJob(r)
      PROVE  run[q].status \notin {"absent", "blocked"}
  <2>1. run[r].status \notin {"absent", "blocked"}
    BY <1>i, <1>2 DEF JobsBelong, LateAdd, StartJob, SkipJob
  <2> QED
    BY <1>2, <1>set, <2>1 DEF LateAdd, StartJob, SkipJob
<1>3. ASSUME NEW r \in Run, Stall(r) PROVE run[q].status \notin {"absent", "blocked"}
  <2>1. job[r].st # "none"
    BY <1>3 DEF Stall
  <2>2. CASE q = r
    BY <1>had, <2>1, <2>2
  <2>3. CASE q # r
    <3>1. job'[q] = job[q]
      BY <1>i, <1>3, <2>3 DEF Stall, TypeOK
    <3> QED
      BY <1>had, <3>1
  <2> QED
    BY <2>2, <2>3
<1>4. CASE ClaimRead
  BY <1>0, <1>4, <1>fin DEF ClaimRead
<1>5. CASE ClaimCrashed \/ OuterCommit \/ MarkFailed \/ MarkFailedFails
  BY <1>5, <1>fin DEF ClaimCrashed, OuterCommit, MarkFailed, MarkFailedFails
<1>6. CASE Claim \/ ClaimConflict \/ Solve \/ Persist \/ CronWrite \/ CronScan \/ Throws
           \/ WorkerCrash \/ BootScan \/ BootWrite \/ ToggleModule
  BY <1>0, <1>6 DEF Claim, ClaimConflict, Solve, Persist, CronWrite, CronScan, Throws, WorkerCrash,
     BootScan, BootWrite, ToggleModule
<1>7. ASSUME NEW s \in Slot,
             \/ TriggerConflict(s) \/ MarkUnqueued(s) \/ CancelWrite(s) \/ DiscardWrite(s)
             \/ AdjustWrite(s) \/ ApplyBegin(s) \/ ApplyCommit(s) \/ ApplyConflict(s)
             \/ Abort(s) \/ TriggerRead(s)
      PROVE  UNCHANGED job
  BY <1>7 DEF TriggerConflict, MarkUnqueued, CancelWrite, DiscardWrite, Overwrite, AdjustWrite,
     ApplyBegin, ApplyCommit, ApplyConflict, Abort, TriggerRead, Starts
<1>8. ASSUME NEW s \in Slot, NEW r \in Run,
             TriggerInsert(s, r) \/ TriggerBlocked(s, r) \/ RequestStart(s, r)
      PROVE  UNCHANGED job
  BY <1>8 DEF TriggerInsert, TriggerBlocked, RequestStart, CancelRead, DiscardRead, AdjustRead,
     ApplyLock, ApplyRead, Starts
<1>9. ASSUME NEW b \in Application, AttendanceTaken(b) PROVE UNCHANGED job
  BY <1>9 DEF AttendanceTaken
<1>10. CASE UNCHANGED vars
  BY <1>0, <1>10 DEF vars
<1> QED
  BY <1>0, <1>1, <1>2, <1>3, <1>4, <1>5, <1>6, <1>7, <1>8, <1>9, <1>10
     DEF Next, RequestStep, WorkerStep

\* Two steps touch the timetable: a commit of an application, and attendance.
LEMMA TimetableMoves ==
  ASSUME [Next]_vars
  PROVE  \/ UNCHANGED Timetable
         \/ \E s \in Slot : ApplyCommit(s)
         \/ \E b \in Application : AttendanceTaken(b)
<1>0. CASE UNCHANGED Timetable
  BY <1>0 DEF Timetable
<1>1. ASSUME NEW s \in Slot,
             \/ TriggerConflict(s) \/ Enqueue(s) \/ EnqueueFails(s) \/ MarkUnqueued(s)
             \/ CancelWrite(s) \/ DiscardWrite(s) \/ AdjustWrite(s) \/ ApplyBegin(s)
             \/ ApplyConflict(s) \/ Abort(s) \/ TriggerRead(s)
      PROVE  UNCHANGED Timetable
  BY <1>1 DEF TriggerConflict, Enqueue, EnqueueFails, MarkUnqueued, CancelWrite, DiscardWrite,
     Overwrite, AdjustWrite, ApplyBegin, ApplyConflict, Abort, TriggerRead, Starts
<1>2. ASSUME NEW s \in Slot, NEW r \in Run,
             TriggerInsert(s, r) \/ TriggerBlocked(s, r) \/ RequestStart(s, r)
      PROVE  UNCHANGED Timetable
  BY <1>2 DEF TriggerInsert, TriggerBlocked, RequestStart, CancelRead, DiscardRead, AdjustRead,
     ApplyLock, ApplyRead, Starts
<1>3. ASSUME NEW r \in Run, LateAdd(r) \/ StartJob(r) \/ SkipJob(r) \/ Stall(r)
      PROVE  UNCHANGED Timetable
  BY <1>3 DEF LateAdd, StartJob, SkipJob, Stall
<1>4. CASE WorkerStep
  BY <1>0, <1>4 DEF WorkerStep, ClaimRead, Claim, ClaimConflict, ClaimCrashed, Solve, Persist,
     OuterCommit, MarkFailed, CronWrite
<1>5. CASE CronScan \/ Throws \/ MarkFailedFails \/ WorkerCrash \/ BootScan \/ BootWrite \/ ToggleModule
  BY <1>0, <1>5 DEF CronScan, Throws, MarkFailedFails, WorkerCrash, BootScan, BootWrite, ToggleModule
<1>6. CASE UNCHANGED vars
  BY <1>6 DEF vars, Timetable
<1> QED
  BY <1>0, <1>1, <1>2, <1>3, <1>4, <1>5, <1>6 DEF Next, RequestStep

\* A commit leaves attendance alone, and attendance only grows.
LEMMA TimetableStep ==
  ASSUME [Next]_vars
  PROVE  /\ attended \subseteq attended'
         /\ schedule' = schedule \/ \E s \in Slot : ApplyCommit(s) /\ attended' = attended
BY TimetableMoves DEF Timetable, ApplyCommit, AttendanceTaken

\* What a commit leaves standing: its own rows, and those it had not read.
LEMMA CommitLeaves ==
  ASSUME TypeOK, References, NEW s \in Slot, ApplyCommit(s), NEW b \in Application
  PROVE  /\ b \in Present' => b = <<api[s].run, s>> \/ b \in Present
         /\ b = <<api[s].run, s>> => b \in Live'
         /\ b # <<api[s].run, s>> /\ b \in api[s].rows /\ b \notin api[s].att => b \notin Present'
<1>1. schedule' = [c \in Application |-> Replaced(s, c)] /\ api[s].rows \subseteq Present
  BY DEF ApplyCommit, RowsStillThere
<1>2. schedule'[b] = Replaced(s, b) /\ schedule[b] \in ScheduleRow
  BY <1>1 DEF TypeOK
<1>3. b # <<api[s].run, s>> /\ b \notin api[s].rows => schedule'[b] = schedule[b]
  BY <1>2 DEF Replaced
<1>4. b # <<api[s].run, s>> /\ b \in api[s].rows /\ b \notin api[s].att => schedule'[b].st = "none"
  BY <1>2 DEF Replaced, NoSchedule
<1>5. b = <<api[s].run, s>> => schedule'[b].st = "live"
  <2>1. [schedule[b] EXCEPT !.st = "live"].st = "live"
    BY <1>2 DEF ScheduleRow
  <2> QED
    BY <1>2, <2>1 DEF Replaced
<1> QED
  BY <1>1, <1>3, <1>4, <1>5 DEF Present, Live

\* Whatever is added to the timetable comes from a run with a result.
LEMMA TimetableIsSolvedStep ==
  ASSUME IndInv, [Next]_vars
  PROVE  TimetableIsSolved'
<1> SUFFICES ASSUME NEW r \in Run, NEW s \in Slot, <<r, s>> \in Present'
             PROVE  run'[r].results > 0
  BY DEF TimetableIsSolved
<1>i. TypeOK /\ References /\ TimetableIsSolved /\ ReadersSawResult
  BY DEF IndInv
<1>1. CASE <<r, s>> \in Present
  BY <1>i, <1>1, Monotone DEF TimetableIsSolved
<1>2. CASE <<r, s>> \notin Present
  <2>1. schedule' # schedule
    BY <1>2 DEF Present
  <2>2. PICK t \in Slot : ApplyCommit(t)
    BY <2>1, TimetableStep
  <2>3. <<r, s>> = <<api[t].run, t>>
    BY <1>i, <1>2, <2>2, CommitLeaves, OldIsApplication
  <2>4. run[r].results = 1
    BY <1>i, <2>2, <2>3 DEF ReadersSawResult, HasResult, ApplyCommit, Replaces
  <2> QED
    BY <2>4, Monotone
<1> QED
  BY <1>1, <1>2

\* Before any attendance a commit replaces the one timetable by another one.
LEMMA OneTimetableStep ==
  ASSUME IndInv, [Next]_vars
  PROVE  OneTimetableRead'
<1> SUFFICES ASSUME Generated, attended' = {}
             PROVE  /\ \E b \in Application : Live' = {b} /\ Present' = {b}
                    /\ \A s \in Slot : Replacing(s)' =>
                         api'[s].att = {} /\ \E b \in Application : api'[s].rows = {b}
  BY DEF OneTimetableRead
<1>i. TypeOK /\ References /\ OneTimetableRead
  BY DEF IndInv
<1>0. attended = {}
  BY TimetableStep
<1>1. PICK b \in Application : Live = {b} /\ Present = {b}
  BY <1>0, <1>i DEF OneTimetableRead
<1>2. \E c \in Application : Live' = {c} /\ Present' = {c}
  <2>1. CASE schedule' = schedule
    <3>1. Live' = Live /\ Present' = Present
      BY <2>1 DEF Live, Present
    <3> QED
      BY <1>1, <3>1
  <2>2. ASSUME NEW s \in Slot, ApplyCommit(s)
        PROVE  \E c \in Application : Live' = {c} /\ Present' = {c}
    <3> DEFINE new == <<api[s].run, s>>
    <3>1. api[s].run \in Run /\ Replacing(s) /\ api[s].rows \subseteq Present
      BY <1>i, <2>2 DEF ApplyCommit, Replaces, References, Replacing, RowsStillThere
    <3>2. api[s].att = {} /\ \E c \in Application : api[s].rows = {c}
      BY <1>0, <1>i, <3>1 DEF OneTimetableRead
    <3>3. api[s].rows = {b}
      BY <1>1, <3>1, <3>2
    <3>4. new \in Application
      BY <3>1, OldIsApplication
    <3>5. ASSUME NEW c \in Application PROVE c \in Present' => c = new
      <4>1. c \in Present' => c = new \/ c \in Present
        BY <1>i, <2>2, CommitLeaves
      <4>2. c # new /\ c \in api[s].rows => c \notin Present'
        BY <1>i, <2>2, <3>2, CommitLeaves
      <4> QED
        BY <1>1, <3>3, <4>1, <4>2
    <3>6. new \in Live'
      BY <1>i, <2>2, <3>4, CommitLeaves
    <3>7. Live' \subseteq Present' /\ Present' \subseteq Application
      BY DEF Live, Present
    <3> QED
      BY <3>4, <3>5, <3>6, <3>7
  <2> QED
    BY <2>1, <2>2, TimetableStep
<1>3. ASSUME NEW s \in Slot, Replacing(s)'
      PROVE  api'[s].att = {} /\ \E c \in Application : api'[s].rows = {c}
  <2>1. CASE api'[s] = api[s]
    BY <1>0, <1>3, <1>i, <2>1 DEF OneTimetableRead, Replacing
  <2>2. CASE api'[s].rows = Present /\ api'[s].att = attended
    BY <1>0, <1>1, <2>2
  <2> QED
    BY <1>3, <2>1, <2>2, RequestsStep DEF Requests, Replacing
<1> QED
  BY <1>2, <1>3

-----------------------------------------------------------------------------
(* The theorems                                                                  *)

LEMMA ReferencesStep ==
  ASSUME IndInv, [Next]_vars
  PROVE  References'
<1>i. References
  BY DEF IndInv
<1>1. ASSUME NEW s \in Slot, api'[s].pc \notin {"idle", "insert"} PROVE api'[s].run \in Run
  BY <1>1, <1>i, RequestsStep DEF Requests, References
<1>2. worker'.pc # "idle" => worker'.run \in Run
  BY <1>i, WorksStep DEF Works, References
<1>3. boot'.pc = "write" => boot'.run \in Run
  BY <1>i, BootStep DEF References
<1> QED
  BY <1>1, <1>2, <1>3 DEF References

\* The worker's copy of the row it is claiming is out of date in one way only: the
\* run may have been failed meanwhile.
LEMMA ClaimedStep ==
  ASSUME IndInv, [Next]_vars, worker'.pc = "claimed"
  PROVE  /\ worker'.seen \in Active
         /\ run'[worker'.run].results = 0
         /\ worker'.seen = "queued" => /\ run'[worker'.run].status \in {"queued", "failed"}
                                       /\ run'[worker'.run].cancelled # "running"
<1>i. TypeOK /\ References /\ SolvedOnce /\ CancelHolds
  BY DEF IndInv
<1>1. CASE worker' = worker
  <2> DEFINE r == worker.run
  <2>1. r \in Run /\ worker.pc = "claimed"
    BY <1>1, <1>i DEF References
  <2>2. /\ worker.seen \in Active /\ run[r].results = 0
        /\ worker.seen = "queued" => run[r].status \in {"queued", "failed"} /\ run[r].cancelled # "running"
    BY <1>i, <2>1 DEF SolvedOnce
  <2>3. CASE run'[r] = run[r]
    BY <1>1, <2>2, <2>3
  <2>4. CASE Moves(r)
    <3>1. run'[r].results = 0
      BY <2>1, <2>2, <2>4 DEF Moves
    <3>2. worker.seen = "queued" => run'[r].status \in {"queued", "failed"} /\ run'[r].cancelled # "running"
      BY <1>1, <2>1, <2>2, <2>4 DEF Moves
    <3> QED
      BY <1>1, <2>2, <3>1, <3>2
  <2> QED
    BY <2>1, <2>3, <2>4, EveryRowMoves
<1>2. CASE worker' # worker
  <2>1. /\ worker.pc = "claim" /\ worker'.run = worker.run /\ UNCHANGED run
        /\ worker'.seen = run[worker.run].status /\ worker'.seen \in Active
    BY <1>2, WorksStep DEF Works
  <2>2. worker.run \in Run
    BY <1>i, <2>1 DEF References
  <2>3. run[worker.run].results = 0
    BY <1>i, <2>1, <2>2 DEF SolvedOnce, Fresh, Active
  <2>4. worker'.seen = "queued" => run[worker.run].cancelled # "running"
    BY <1>i, <2>1, <2>2 DEF CancelHolds
  <2> QED
    BY <2>1, <2>3, <2>4
<1> QED
  BY <1>1, <1>2

LEMMA SolvedOnceStep ==
  ASSUME IndInv, [Next]_vars
  PROVE  SolvedOnce'
<1>i. References /\ SolvedOnce /\ JobsBelong
  BY DEF IndInv
<1>1. worker'.pc # "idle" => run'[worker'.run].status \notin {"absent", "blocked"}
  <2>1. CASE worker' = worker \/ (worker.pc # "idle" /\ worker'.run = worker.run)
    BY <1>i, <2>1, Monotone DEF References, SolvedOnce
  <2>2. CASE /\ worker'.run \in Run /\ UNCHANGED run
             /\ job[worker'.run].st = "waiting" \/ run[worker'.run].status = "running"
    BY <1>i, <2>2 DEF JobsBelong
  <2> QED
    BY <2>1, <2>2, WorksStep DEF Works
<1>2. boot'.pc = "write" => run'[boot'.run].status \notin {"absent", "blocked"}
  <2>1. CASE boot' = boot
    BY <1>i, <2>1, Monotone DEF References, SolvedOnce
  <2>2. CASE boot'.run \in Run /\ run[boot'.run].status \in Active
    BY <2>2, Monotone DEF Active
  <2> QED
    BY <2>1, <2>2, BootStep
<1> QED
  BY <1>1, <1>2, RowsSolvedOnce, ClaimedStep DEF SolvedOnce

LEMMA ReadersStep ==
  ASSUME IndInv, [Next]_vars
  PROVE  ReadersSawResult' /\ AttendedRead'
<1>i. References /\ SolvedOnce /\ ReadersSawResult /\ AttendedRead
  BY DEF IndInv
<1>1. ASSUME NEW s \in Slot
      PROVE  /\ HasResult(s)' => run'[api'[s].run].results = 1
             /\ Submitted(s)' => run'[api'[s].run].status \notin {"absent", "blocked"}
             /\ api'[s].att \subseteq attended'
  <2>a. attended \subseteq attended' /\ api[s].att \subseteq attended
    BY <1>i, TimetableStep DEF AttendedRead
  <2>1. CASE api'[s] = api[s]
    BY <1>i, <2>a, <2>1, Monotone DEF References, ReadersSawResult, HasResult, Submitted
  <2>2. CASE api'[s].pc \in {"idle", "insert"} /\ api'[s].att = {}
    BY <2>2 DEF HasResult, Submitted
  <2>3. CASE /\ api'[s].pc = "enqueue" /\ api'[s].att = {}
             /\ run'[api'[s].run].status = "queued"
    BY <2>3 DEF HasResult, Submitted
  <2>4. CASE /\ api'[s].pc = "unqueued" /\ api[s].pc = "enqueue"
             /\ api'[s].run = api[s].run /\ api'[s].att = api[s].att
    BY <1>i, <2>a, <2>4, Monotone DEF References, ReadersSawResult, HasResult, Submitted
  <2>5. CASE /\ api'[s].pc = "cancel" /\ api'[s].run \in Run /\ api'[s].att = {}
             /\ run[api'[s].run].status \in Active
    BY <2>5, Monotone DEF HasResult, Submitted, Active
  <2>6. CASE /\ api'[s].pc \in {"adjust", "discard", "apply"} /\ api'[s].run \in Run
             /\ api'[s].att = {} /\ run[api'[s].run].status = "completed"
    BY <1>i, <2>6, Monotone DEF SolvedOnce, HasResult, Submitted
  <2>7. CASE /\ api'[s].pc \in {"replace", "replace_locked"} /\ api'[s].run \in Run
             /\ run[api'[s].run].results = 1 /\ api'[s].att = attended
    BY <2>a, <2>7, Monotone DEF HasResult, Submitted
  <2> QED
    BY <2>1, <2>2, <2>3, <2>4, <2>5, <2>6, <2>7, RequestsStep DEF Requests
<1> QED
  BY <1>1 DEF ReadersSawResult, AttendedRead

LEMMA TypesStep ==
  ASSUME IndInv, [Next]_vars
  PROVE  TypeOK'
<1>i. TypeOK /\ References
  BY DEF IndInv
<1>0. CASE UNCHANGED vars
  BY <1>i, <1>0 DEF vars, TypeOK
<1>1. ASSUME NEW s \in Slot, RequestStep(s) \/ Abort(s) \/ TriggerRead(s) PROVE TypeOK'
  <2>1. ASSUME NEW r \in Run, TriggerInsert(s, r) \/ TriggerBlocked(s, r) PROVE TypeOK'
    BY <1>i, <2>1, RequestTypes
  <2>2. CASE Run = {}
    <3>1. CASE TriggerRead(s)
      BY <1>i, <3>1, StartsType DEF TriggerRead, ApiPcs
    <3>2. CASE TriggerConflict(s)
      <4>1. api' \in [Slot -> Handler]
        BY <1>i, <3>2, IdleType, Went DEF TriggerConflict
      <4> QED
        BY <1>i, <3>2, <4>1 DEF TriggerConflict, TypeOK, Timetable
    <3>3. CASE Abort(s)
      <4>1. api' \in [Slot -> Handler]
        BY <1>i, <3>3, IdleType, Went DEF Abort
      <4> QED
        BY <1>i, <3>3, <4>1, EventType DEF Abort, TypeOK, Timetable
    <3> QED
      BY <1>1, <1>i, <2>1, <2>2, <3>1, <3>2, <3>3 DEF RequestStep, References, Enqueue,
         EnqueueFails, MarkUnqueued, CancelWrite, DiscardWrite, Overwrite, AdjustWrite, ApplyBegin,
         ApplyCommit, ApplyConflict, Replaces
  <2>3. ASSUME NEW r \in Run PROVE TypeOK'
    BY <1>1, <1>i, <2>1, <2>3, RequestTypes DEF RequestStep
  <2> QED
    BY <2>2, <2>3
<1>2. ASSUME NEW s \in Slot, NEW r \in Run, RequestStart(s, r) PROVE TypeOK'
  BY <1>i, <1>2, RequestTypes
<1>3. ASSUME NEW r \in Run, LateAdd(r) \/ StartJob(r) \/ SkipJob(r) \/ Stall(r) PROVE TypeOK'
  BY <1>i, <1>3, JobTypes
<1>4. CASE WorkerStep \/ CronScan \/ Throws \/ MarkFailedFails \/ WorkerCrash
  BY <1>i, <1>4, WorkerTypes
<1>5. CASE BootScan \/ BootWrite \/ ToggleModule
  BY <1>i, <1>5, OtherTypes, OldIsApplication
<1>6. ASSUME NEW b \in Application, AttendanceTaken(b) PROVE TypeOK'
  BY <1>i, <1>6, OtherTypes
<1> QED
  BY <1>0, <1>1, <1>2, <1>3, <1>4, <1>5, <1>6 DEF Next

LEMMA InitInvariant == Init => IndInv
<1> SUFFICES ASSUME Init PROVE IndInv
  OBVIOUS
<1>1. \A r \in Run : /\ run[r].status = "absent" /\ run[r].results = 0 /\ run[r].cancelled = "no"
                     /\ job[r].st = "none"
  BY DEF Init
<1>2. /\ \A s \in Slot : api[s].pc = "idle" /\ api[s].att = {}
      /\ worker.pc = "idle" /\ boot.pc = "off"
  BY IdleType, RestingType, WorkingType DEF Init, Status
<1>3. /\ Generated => Live = {Old} /\ Present = {Old}
      /\ \A r \in Run, s \in Slot : <<r, s>> \notin Present
  <2>1. \A r \in Run, s \in Slot : <<r, s>> # Old
    BY NoneAssumption DEF Old
  <2>2. \A b \in Application : schedule[b].st = IF Generated /\ b = Old THEN "live" ELSE "none"
    BY DEF Init, NoSchedule
  <2>3. Old \in Application
    BY OldIsApplication
  <2> QED
    BY <2>1, <2>2, <2>3, OldIsApplication DEF Live, Present
<1>4. TypeOK
  BY InitTypes
<1>5. OneActiveRun /\ CancelHolds /\ TimetableIsSolved
  BY <1>1, <1>3 DEF OneActiveRun, CancelHolds, TimetableIsSolved, Active
<1>6. References /\ SolvedOnce /\ JobsBelong
  BY <1>1, <1>2 DEF References, SolvedOnce, JobsBelong, Fresh
<1>7. ReadersSawResult /\ OneTimetableRead /\ AttendedRead
  BY <1>2, <1>3, OldIsApplication DEF ReadersSawResult, HasResult, Submitted, OneTimetableRead, Replacing,
     AttendedRead
<1> QED
  BY <1>4, <1>5, <1>6, <1>7 DEF IndInv

\* What the index, the conditional update of the worker, the lock of one route and
\* the deletes by id keep true together holds in every reachable state.
THEOREM InvariantHolds == Spec => []IndInv
<1>1. ASSUME IndInv, [Next]_vars PROVE IndInv'
  <2>1. JobsBelong'
    BY <1>1, JobsStep, Monotone DEF JobsBelong
  <2>2. TypeOK' /\ References' /\ SolvedOnce' /\ ReadersSawResult' /\ AttendedRead'
    BY <1>1, TypesStep, ReferencesStep, SolvedOnceStep, ReadersStep
  <2>3. OneActiveRun' /\ CancelHolds' /\ TimetableIsSolved' /\ OneTimetableRead'
    BY <1>1, OneActiveRunStep, CancelHoldsStep, TimetableIsSolvedStep, OneTimetableStep
  <2> QED
    BY <2>1, <2>2, <2>3 DEF IndInv
<1> QED
  BY <1>1, InitInvariant, PTL DEF Spec

\* Every row, job and process keeps its shape.
THEOREM TypeCorrect == Spec => []TypeOK
<1>1. IndInv => TypeOK
  BY DEF IndInv
<1> QED
  BY <1>1, InvariantHolds, PTL

\* At most one run of the year is queued or running.
THEOREM OneActiveRunHolds == Spec => []OneActiveRun
<1>1. IndInv => OneActiveRun
  BY DEF IndInv
<1> QED
  BY <1>1, InvariantHolds, PTL

\* No redelivery of its job solves a run a second time.
THEOREM SolvedAtMostOnce == Spec => []OneResult
<1>1. IndInv => OneResult
  BY DEF IndInv, SolvedOnce, OneResult
<1> QED
  BY <1>1, InvariantHolds, PTL

\* Cancelling a running run stands.
THEOREM CancellationHolds == Spec => []CancelHolds
<1>1. IndInv => CancelHolds
  BY DEF IndInv
<1> QED
  BY <1>1, InvariantHolds, PTL

\* What stands in the timetable came out of the solver.
THEOREM OnlySolvedIsApplied == Spec => []TimetableIsSolved
<1>1. IndInv => TimetableIsSolved
  BY DEF IndInv
<1> QED
  BY <1>1, InvariantHolds, PTL

\* Without attendance a generated timetable is replaced as a whole.
THEOREM TimetableIsReplaced == Spec => []OneTimetable
<1>1. IndInv => OneTimetable
  BY DEF IndInv, OneTimetableRead, OneTimetable
<1> QED
  BY <1>1, InvariantHolds, PTL
=============================================================================
