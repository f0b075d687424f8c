SPECIFICATION Spec
CONSTANTS
  i1 = i1
  i2 = i2
  p1 = p1
  p2 = p2
  p3 = p3
  f1 = f1
  f2 = f2
  c1 = c1
  e1 = e1
  e2 = e2
  u1 = u1
  u2 = u2
  s1 = s1
  s2 = s2
  null = null
  Invoice <- OneInvoice
  Payment <- FirstPayment
  Desk <- FirstPayment
  Refund <- TwoRefunds
  CreditNote <- NoNote
  Session <- NoSession
  User <- TwoUsers
  Slot <- TwoHandlers
  Total <- TwoUnits
  Worth <- OneUnitNote
  Fresh <- Issued
  Fee = 1
  MaxApplications = 0
  MaxAmount = 2
  MaxRows = 2
  MaxFaults = 0
  None <- null
SYMMETRY Everything
INVARIANTS
  RefundCap
CHECK_DEADLOCK FALSE
