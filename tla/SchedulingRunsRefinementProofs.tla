-------------------- MODULE SchedulingRunsRefinementProofs --------------------
(* SchedulingRuns implements TimetableRuns, for any number of runs, concurrent     *)
(* requests, crashes and redelivered jobs: the inductive invariant of               *)
(* SchedulingRunsProofs says what each handler may still rely on when it writes,    *)
(* and a step writes one run's row or the timetable.                               *)
EXTENDS SchedulingRunsProofs, SchedulingRunsRefinement

-----------------------------------------------------------------------------
(* The phase of a run                                                            *)

\* The fields of a row that its phase depends on, and what each makes of it.
LEMMA PhaseOf ==
  ASSUME IndInv, NEW r \in Run
  PROVE  /\ run[r].status \in Active => Phase(r) = run[r].status
         /\ run[r].status \notin Active => Phase(r) \in {"idle", "cancelled", "solved"}
         /\ run[r].cancelled = "running" => Phase(r) = "cancelled"
         /\ run[r].results > 0 => Phase(r) = "solved"
         /\ run[r].status \notin Active /\ run[r].cancelled # "running" /\ run[r].results = 0
              => Phase(r) = "idle"
<1>1. run[r].results \in Nat
  BY DEF IndInv, TypeOK, RunRow
<1>2. run[r].cancelled = "running" => run[r].status \notin Active /\ run[r].results = 0
  BY DEF IndInv, CancelHolds, Active
<1>3. run[r].results > 0 => run[r].status \notin Active
  BY DEF IndInv, SolvedOnce, Fresh, Active
<1> QED
  BY <1>1, <1>2, <1>3 DEF Phase

\* The ways in which the phase of the one run whose row changes may move.
PhaseMoves(r) ==
  \/ Phase(r)' = Phase(r)
  \/ Phase(r) = "idle" /\ NoOtherActive(r) /\ Phase(r)' = "queued"
  \/ Phase(r) \in {"idle", "queued"} /\ NoOtherActive(r) /\ Phase(r)' = "running"
  \/ Phase(r) = "running" /\ Phase(r)' \in {"solved", "cancelled"}
  \/ Phase(r) \in {"queued", "running"} /\ Phase(r)' = "idle"

\* Every change of a row is one of them: a failure that reaches a run after its
\* result or its cancellation leaves its phase alone.
LEMMA PhaseStep ==
  ASSUME IndInv, IndInv', NEW r \in Run, Moves(r)
  PROVE  PhaseMoves(r)
<1>1. /\ run[r].results \in Nat /\ run[r].status \in Status
      /\ run[r].cancelled \in {"no", "queued", "running"}
      /\ run'[r].results \in Nat
      /\ run'[r].cancelled \in {"no", "queued", "running"}
  BY DEF IndInv, TypeOK, RunRow
<1>p. /\ run'[r].status \in Active => Phase(r)' = run'[r].status
      /\ run'[r].cancelled = "running" => Phase(r)' = "cancelled"
      /\ run'[r].results > 0 => Phase(r)' = "solved"
      /\ run'[r].status \notin Active /\ run'[r].cancelled # "running" /\ run'[r].results = 0
           => Phase(r)' = "idle"
  <2>1. run'[r].cancelled = "running" => run'[r].status \notin Active /\ run'[r].results = 0
    BY DEF IndInv, CancelHolds, Active
  <2>2. run'[r].results > 0 => run'[r].status \notin Active
    BY DEF IndInv, SolvedOnce, Fresh, Active
  <2> QED
    BY <1>1, <2>1, <2>2 DEF Phase
<1>2. CASE run[r].cancelled = "running"
  <2>1. run[r].status = "failed" /\ run[r].results = 0
    BY <1>2 DEF IndInv, CancelHolds
  <2>2. run'[r].cancelled = "running"
    BY <1>2, <2>1 DEF Moves, Active
  <2> QED
    BY <1>2, <1>p, <2>2, PhaseOf DEF PhaseMoves
<1>3. CASE run[r].results > 0
  <2>1. run'[r].results > 0
    BY <1>1, <1>3 DEF Moves
  <2> QED
    BY <1>3, <1>p, <2>1, PhaseOf DEF PhaseMoves
<1>4. CASE run[r].cancelled # "running" /\ run[r].results = 0
  <2>1. Phase(r) = IF run[r].status \in Active THEN run[r].status ELSE "idle"
    BY <1>4, PhaseOf
  <2>2. CASE run'[r].status \in Active
    BY <1>4, <1>p, <2>1, <2>2 DEF Moves, PhaseMoves, Active
  <2>3. CASE run'[r].status \notin Active /\ run'[r].results > 0
    BY <1>4, <1>p, <2>1, <2>3 DEF Moves, PhaseMoves, Active
  <2>4. CASE run'[r].status \notin Active /\ run'[r].results = 0
    <3>1. CASE run'[r].cancelled = "running"
      BY <1>4, <1>p, <2>1, <2>4, <3>1 DEF Moves, PhaseMoves, Active
    <3>2. CASE run'[r].cancelled # "running"
      BY <1>4, <1>p, <2>1, <2>4, <3>2 DEF PhaseMoves, Active
    <3> QED
      BY <3>1, <3>2
  <2> QED
    BY <1>1, <2>2, <2>3, <2>4
<1> QED
  BY <1>1, <1>2, <1>3, <1>4

\* The row of a run decides its phase.
LEMMA SamePhase ==
  ASSUME NEW r \in Run, run'[r] = run[r]
  PROVE  Phase(r)' = Phase(r)
BY DEF Phase

-----------------------------------------------------------------------------
(* The refinement                                                                *)

Phases == [r \in Run |-> Phase(r)]

\* A step that leaves the timetable alone moves one run, or none.
LEMMA RunsRefine ==
  ASSUME IndInv, IndInv', [Next]_vars, UNCHANGED Timetable
  PROVE  [Runs!Next]_(Runs!vars)
<1>1. UNCHANGED <<Live, attended>>
  BY DEF Timetable, Live
<1>2. CASE run' = run
  <2>1. Phases' = Phases
    BY <1>2, SamePhase DEF Phases
  <2> QED
    BY <1>1, <2>1 DEF Runs!vars, Phases
<1>3. ASSUME NEW r \in Run, OnlyRow(r) PROVE [Runs!Next]_(Runs!vars)
  <2>1. PhaseMoves(r)
    BY <1>3, PhaseStep DEF OnlyRow
  <2>2. Phases' = [Phases EXCEPT ![r] = Phase(r)']
    BY <1>3, SamePhase DEF OnlyRow, Phases
  <2>3. Phases[r] = Phase(r)
    BY DEF Phases
  <2>4. NoOtherActive(r) => \A q \in Run \ {r} : Phases[q] \notin {"queued", "running"}
    BY PhaseOf DEF NoOtherActive, Phases, Active
  <2>5. CASE Phase(r)' = Phase(r)
    BY <1>1, <2>2, <2>3, <2>5 DEF Runs!vars, Phases
  <2>6. CASE Phase(r) = "idle" /\ NoOtherActive(r) /\ Phase(r)' = "queued"
    <3>1. Runs!Queue(r)
      BY <1>1, <2>2, <2>3, <2>4, <2>6 DEF Runs!Queue, Runs!Activates, Phases
    <3> QED
      BY <3>1 DEF Runs!Next
  <2>7. CASE Phase(r) \in {"idle", "queued"} /\ NoOtherActive(r) /\ Phase(r)' = "running"
    <3>1. Runs!Begin(r)
      BY <1>1, <2>2, <2>3, <2>4, <2>7 DEF Runs!Begin, Runs!Activates, Phases
    <3> QED
      BY <3>1 DEF Runs!Next
  <2>8. CASE Phase(r) = "running" /\ Phase(r)' \in {"solved", "cancelled"}
    <3>1. Runs!Solve(r) \/ Runs!Cancel(r)
      BY <1>1, <2>2, <2>3, <2>8 DEF Runs!Solve, Runs!Cancel, Runs!Ends, Phases
    <3> QED
      BY <3>1 DEF Runs!Next
  <2>9. CASE Phase(r) \in {"queued", "running"} /\ Phase(r)' = "idle"
    <3>1. Runs!Drop(r)
      BY <1>1, <2>2, <2>3, <2>9 DEF Runs!Drop, Runs!Ends, Phases
    <3> QED
      BY <3>1 DEF Runs!Next
  <2> QED
    BY <2>1, <2>5, <2>6, <2>7, <2>8, <2>9 DEF PhaseMoves
<1> QED
  BY <1>2, <1>3, RunStep

\* A commit publishes the version it has written.
LEMMA CommitRefines ==
  ASSUME IndInv, IndInv', NEW s \in Slot, ApplyCommit(s), OneTimetableRead'
  PROVE  Runs!Next
<1>i. TypeOK /\ References /\ ReadersSawResult
  BY DEF IndInv
<1>r. PICK r \in Run : r = api[s].run
  BY <1>i DEF ApplyCommit, Replaces, References
<1> DEFINE b == <<r, s>>
<1>1. run[r].results = 1 /\ attended' = attended
  BY <1>i, <1>r DEF ApplyCommit, Replaces, ReadersSawResult, HasResult
<1>2. b \in Application /\ b[1] = r
  BY OldIsApplication
<1>3. Phases' = Phases
  <2>1. /\ \A q \in Run \ {r} : run'[q] = run[q]
        /\ run'[r].results = run[r].results
    BY <1>i, <1>r, StatusSet DEF ApplyCommit, Status
  <2>2. Phase(r) = "solved"
    BY <1>1, PhaseOf
  <2>3. Phase(r)' = "solved"
    <3>1. run'[r].results = 1 /\ run'[r].status = "applied" /\ run'[r].cancelled # "running"
      <4>1. run'[r].results = 1
        BY <1>1, <2>1
      <4>2. run'[r].cancelled # "running"
        BY <1>1, <4>1 DEF IndInv, CancelHolds
      <4>3. run'[r].status = "applied"
        BY <1>i, <1>r, StatusSet DEF ApplyCommit, Status
      <4> QED
        BY <4>1, <4>2, <4>3
    <3> QED
      BY <3>1 DEF Phase, Active
  <2> QED
    BY <2>1, <2>2, <2>3, SamePhase DEF Phases
<1>4. Phases[r] = "solved"
  BY <1>1, PhaseOf DEF Phases
<1>5. Live \subseteq Application /\ Live' \subseteq Application
  BY DEF Live
<1>6. b \in Live' /\ Live' \subseteq Live \cup {b}
  <2>1. b \in Live'
    BY <1>i, <1>r, <1>2, CommitLeaves
  <2>2. ASSUME NEW c \in Live', c # b PROVE c \in Live
    <3>1. schedule'[c] = Replaced(s, c)
      BY <1>5 DEF ApplyCommit
    <3>2. schedule'[c].st = "live"
      BY DEF Live
    <3>3. CASE c \notin api[s].rows
      BY <1>5, <1>r, <2>2, <3>1, <3>2, <3>3 DEF Replaced, Live
    <3>4. CASE c \in api[s].rows
      BY <1>r, <2>2, <3>1, <3>2, <3>4 DEF Replaced, NoSchedule
    <3> QED
      BY <3>3, <3>4
  <2> QED
    BY <2>1, <2>2
<1>7. Generated /\ attended = {} => Live' = {b}
  BY <1>1, <1>6 DEF OneTimetableRead
<1>8. Runs!Publish(b)
  BY <1>1, <1>2, <1>3, <1>4, <1>6, <1>7 DEF Runs!Publish, Phases
<1> QED
  BY <1>2, <1>8 DEF Runs!Next

LEMMA AttendanceRefines ==
  ASSUME NEW b \in Application, AttendanceTaken(b)
  PROVE  Runs!Next
<1>1. run' = run /\ schedule' = schedule /\ attended' = attended \cup {b} /\ b \in Live
  BY DEF AttendanceTaken, Live
<1>2. Phases' = Phases /\ Live' = Live
  BY <1>1, SamePhase DEF Phases, Live
<1>3. Runs!Attend(b)
  BY <1>1, <1>2 DEF Runs!Attend, Phases
<1> QED
  BY <1>3 DEF Runs!Next

LEMMA InitRefines == Init => Runs!Init
<1> SUFFICES ASSUME Init PROVE Runs!Init
  OBVIOUS
<1>1. Phases = [r \in Run |-> "idle"]
  <2>1. ASSUME NEW r \in Run PROVE Phase(r) = "idle"
    BY DEF Init, Phase, Active
  <2> QED
    BY <2>1 DEF Phases
<1>2. Live = IF Generated THEN {Old} ELSE {}
  <2>1. \A b \in Application : schedule[b].st = IF Generated /\ b = Old THEN "live" ELSE "none"
    BY DEF Init, NoSchedule
  <2> QED
    BY <2>1, OldIsApplication DEF Live
<1>3. attended = {}
  BY DEF Init
<1> QED
  BY <1>1, <1>2, <1>3 DEF Runs!Init, Phases

\* The runs of a year and its timetable move as TimetableRuns says, however the
\* requests, the worker, redelivered jobs and the reapers overlap.
THEOREM SchedulingImplementsRuns == Spec => ImplementsTimetableRuns
<1>1. ASSUME IndInv, IndInv', [Next]_vars PROVE [Runs!Next]_(Runs!vars)
  <2>1. ASSUME NEW s \in Slot, ApplyCommit(s) PROVE Runs!Next
    BY <1>1, <2>1, CommitRefines DEF IndInv
  <2> QED
    BY <1>1, <2>1, TimetableMoves, RunsRefine, AttendanceRefines
<1> QED
  BY <1>1, InitRefines, InvariantHolds, PTL DEF Spec, ImplementsTimetableRuns, Runs!Spec
=============================================================================
