--------------------------- MODULE MCSchedulingRuns ---------------------------
(* Instances of SchedulingRuns for TLC: one academic year with few runs.         *)
EXTENDS SchedulingRunsRefinement, TLC

CONSTANTS r1, r2, s1, s2, null

OneRun == {r1}
TwoRuns == {r1, r2}
OneRequest == {s1}
TwoRequests == {s1, s2}

\* Runs are interchangeable, and so are requests.
Everything == Permutations(Run) \cup Permutations(Slot)
=============================================================================
