SPECIFICATION LiveSpec
CONSTANTS
  i1 = i1
  i2 = i2
  p1 = p1
  p2 = p2
  p3 = p3
  f1 = f1
  f2 = f2
  c1 = c1
  e1 = e1
  e2 = e2
  u1 = u1
  u2 = u2
  s1 = s1
  s2 = s2
  null = null
  Invoice <- OneInvoice
  Payment <- TwoPayments
  Desk <- NoPayment
  Refund <- OneRefund
  CreditNote <- OneNote
  Session <- OneSession
  User <- TwoUsers
  Slot <- TwoHandlers
  Total <- OneUnit
  Worth <- OneUnitNote
  Fresh <- Issued
  Fee = 1
  MaxApplications = 1
  MaxAmount = 1
  MaxRows = 1
  MaxFaults = 1
  None <- null
INVARIANTS
  OnePaymentPerSession
  RefundsHonoured

  
CHECK_DEADLOCK FALSE
