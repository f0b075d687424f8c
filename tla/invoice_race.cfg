CONSTANTS
  e1 = e1
  e2 = e2
  r1 = r1
  r2 = r2
  u1 = u1
  u2 = u2
  s1 = s1
  s2 = s2
  w1 = w1
  w2 = w2
  None = None
  Entity <- OneEntity
  Kind <- Invoices
  Req <- TwoRequests
  Target <- TargetsE1
  User <- TwoUsers
  Slot = {s1, s2}
  Worker = {w1}
  DirectAuthority = {}
  MaxAttempts = 2
  MaxJobs = 2
  MaxFaults = 1
  MaxRetries = 0
  MaxToggles = 0
SPECIFICATION Spec
INVARIANTS TypeOK JobsOnlyForApproved FourEyes
PROPERTY DecisionsAreFinal
SYMMETRY ProcessesAndUsers
CHECK_DEADLOCK FALSE
