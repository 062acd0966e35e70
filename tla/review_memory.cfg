SPECIFICATION Spec
CONSTANTS
  a1 = a1
  a2 = a2
  b1 = b1
  A = A
  B = B
  Notices = {a1, a2, b1}
  Operators = {p}
  Durable = FALSE
  MaxFails = 2
  MaxRaises = 1
  MaxCrashes = 0
  None = None
  DebtorOf <- TwoDebtors
SYMMETRY Symmetry
INVARIANTS
  NoticeKept
  QueueIsFifo
  ApprovedWasShown
