SPECIFICATION Spec
CONSTANTS
  a1 = a1
  a2 = a2
  b1 = b1
  A = A
  B = B
  Notices = {a1, a2}
  Operators = {p, q}
  Durable = TRUE
  MaxFails = 2
  MaxRaises = 0
  MaxCrashes = 0
  None = None
  DebtorOf <- TwoDebtors
SYMMETRY Symmetry
INVARIANTS
  QueueIsFifo
  NoticeKept
  ApprovedWasShown
