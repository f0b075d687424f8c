SPECIFICATION Spec
CONSTANTS
  r1 = r1
  r2 = r2
  s1 = s1
  s2 = s2
  null = null
  Run <- TwoRuns
  Slot <- TwoRequests
  Generated = TRUE
  MaxStalls = 2
  MaxEvents = 1
  None <- null
SYMMETRY Everything
INVARIANTS
  OneActiveRun
  OneResult
  CancelHolds
  TimetableIsSolved
  OneTimetable
  IndInv
PROPERTY ImplementsTimetableRuns
CHECK_DEADLOCK FALSE
