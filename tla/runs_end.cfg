SPECIFICATION FairSpec
CONSTANTS
  r1 = r1
  r2 = r2
  s1 = s1
  s2 = s2
  null = null
  Run <- TwoRuns
  Slot <- OneRequest
  Generated = TRUE
  MaxStalls = 2
  MaxEvents = 1
  None <- null
PROPERTIES
  ActiveRunsEnd
CHECK_DEADLOCK FALSE
