CONSTANTS
  e1 = e1
  e2 = e2
  r1 = r1
  r2 = r2
  u1 = u1
  u2 = u2
  s1 = s1
  s2 = s2
  w1 = w1
  w2 = w2
  None = None
  Entity <- TwoEntities
  Kind <- OneOfEach
  Req <- TwoRequests
  Target <- TargetEach
  User <- TwoUsers
  Slot = {s1}
  Worker = {w1}
  DirectAuthority = {u1}
  MaxAttempts = 1
  MaxJobs = 2
  MaxFaults = 1
  MaxRetries = 1
  MaxToggles = 1
SPECIFICATION FairSpec
PROPERTIES StatusMovesForward CallbackIsIdempotent 
CHECK_DEADLOCK FALSE
