SPECIFICATION Spec
CONSTANTS
  a1 = a1
  a2 = a2
  b1 = b1
  A = A
  B = B
  Notices = {a1, a2}
  Operators = {p}
  Durable = TRUE
  MaxFails = 0
  MaxRaises = 0
  MaxCrashes = 1
  None = None
  DebtorOf <- TwoDebtors
SYMMETRY Symmetry
PROPERTIES
  NothingSentWhileHalted
INVARIANTS
  NoticeKept
