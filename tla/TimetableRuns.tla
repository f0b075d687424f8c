---------------------------- MODULE TimetableRuns ----------------------------
(* What scheduling promises about the solver runs of a year and its timetable,   *)
(* without requests, jobs, workers, reapers or locks: runs are active one at a     *)
(* time and solved once, a running run that is cancelled is never heard of again,  *)
(* and only a solved run is published, in one step.                               *)
CONSTANTS
  Run,
  Version,       \* timetables that can be in force
  RunOf,         \* the run a version comes from
  First          \* the generated timetable the year begins with, if it has one

VARIABLES
  phase,         \* idle, queued, running, solved or cancelled
  live,          \* versions in force
  attended       \* versions that attendance has been taken for

vars == <<phase, live, attended>>

Init ==
  /\ phase = [r \in Run |-> "idle"]
  /\ live = First /\ attended = {}

Activates(r, from, to) ==
  /\ phase[r] \in from /\ \A q \in Run \ {r} : phase[q] \notin {"queued", "running"}
  /\ phase' = [phase EXCEPT ![r] = to]
  /\ UNCHANGED <<live, attended>>

Queue(r) == Activates(r, {"idle"}, "queued")
\* A run that was dropped from the queue may begin after all; none ends twice.
Begin(r) == Activates(r, {"idle", "queued"}, "running")

Ends(r, from, to) ==
  /\ phase[r] \in from
  /\ phase' = [phase EXCEPT ![r] = to]
  /\ UNCHANGED <<live, attended>>

Solve(r) == Ends(r, {"running"}, "solved")
Cancel(r) == Ends(r, {"running"}, "cancelled")
Drop(r) == Ends(r, {"queued", "running"}, "idle")

\* The new version is in force and no other one appears; as long as nobody has
\* taken attendance, it takes the place of all there were.
Publish(v) ==
  /\ RunOf[v] \in Run /\ phase[RunOf[v]] = "solved"
  /\ v \in live' /\ live' \subseteq live \cup {v}
  /\ First # {} /\ attended = {} => live' = {v}
  /\ UNCHANGED <<phase, attended>>

Attend(v) ==
  /\ v \in live
  /\ attended' = attended \cup {v}
  /\ UNCHANGED <<phase, live>>

Next ==
  \/ \E r \in Run : Queue(r) \/ Begin(r) \/ Solve(r) \/ Cancel(r) \/ Drop(r)
  \/ \E v \in Version : Publish(v) \/ Attend(v)

Spec == Init /\ [][Next]_vars
=============================================================================
