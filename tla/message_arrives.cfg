SPECIFICATION FairSpec
CONSTANTS
  m1 = m1
  m2 = m2
  t1 = t1
  t2 = t2
  w1 = w1
  w2 = w2
  null = null
  None <- null
  Tenant = {t1}
  Msg <- OneMessage
  Worker = {w1}
  Home <- AtT1
  First <- BySms
  Batches = 2
  BatchSize = 2
  MaxAttempts = 2
  MaxRuns = 3
  MaxNotes = 2
  MaxJobs = 2
  MaxEvents = 1
INVARIANTS
  NoNeedlessResend
  AttemptsCounted
  ChainInOrder
  IndInv
PROPERTY
  MessageArrives
CHECK_DEADLOCK FALSE
