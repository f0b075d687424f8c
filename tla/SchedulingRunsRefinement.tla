---------------------- MODULE SchedulingRunsRefinement ----------------------
(* The solver runs of a year implement TimetableRuns: the read of a handler and   *)
(* the update by id that follows it are one step of the abstract run or none, and *)
(* an application's reads, deletes and inserts are one publication or none.        *)
EXTENDS SchedulingRuns

\* A result makes a run solved whatever its status says later on.
Phase(r) ==
  CASE run[r].status \in Active -> run[r].status
    [] run[r].cancelled = "running" -> "cancelled"
    [] run[r].results > 0 -> "solved"
    [] OTHER -> "idle"

Runs == INSTANCE TimetableRuns WITH
  Version <- Application,
  RunOf <- [b \in Application |-> b[1]],
  First <- IF Generated THEN {Old} ELSE {},
  phase <- [r \in Run |-> Phase(r)],
  live <- Live

\* However requests, the worker, redelivered jobs and the reapers overlap, the runs
\* of a year and its timetable move as if each decision were taken in one step
\* (triggerSolverRun, cancelRun, processJob, the reapers and applyRun together).
ImplementsTimetableRuns == Runs!Spec
=============================================================================
