SPECIFICATION Spec
CONSTANTS
  a1 = a1
  a2 = a2
  a3 = a3
  g1 = g1
  e1 = e1
  e2 = e2
  m1 = m1
  m2 = m2
  t1 = t1
  t2 = t2
  null = null
  App <- Pair
  Group <- OneYearGroup
  Target <- ToG1
  Sibling <- NoSibling
  Event <- NoEvent
  Pays <- FirstPays
  Fee <- OneFee
  Txn <- TwoRequests
  None <- null
  MaxSeats = 1
  MaxChanges = 1
  MaxFaults = 0
SYMMETRY RequestsAndApps
INVARIANTS
  SeatsHeldFit
  IndInv
PROPERTY ImplementsSeatRegister
CHECK_DEADLOCK FALSE
