SPECIFICATION FairSpec
CONSTANTS
  a1 = a1
  a2 = a2
  a3 = a3
  g1 = g1
  e1 = e1
  e2 = e2
  m1 = m1
  m2 = m2
  t1 = t1
  t2 = t2
  null = null
  App <- OneApp
  Group <- OneYearGroup
  Target <- ToG1
  Sibling <- NoSibling
  Event <- OneEvent
  Pays <- FirstPays
  Fee <- OneFee
  Txn <- OneRequest
  None <- null
  MaxSeats = 1
  MaxChanges = 2
  MaxFaults = 2
PROPERTY
  HoldEnds
CHECK_DEADLOCK FALSE
