SPECIFICATION Spec
CONSTANTS
  a1 = a1
  a2 = a2
  b1 = b1
  A = A
  B = B
  Notices = {a1, a2, b1}
  Operators = {p, q}
  Durable = TRUE
  MaxFails = 1
  MaxRaises = 1
  MaxCrashes = 1
  None = None
  DebtorOf <- TwoDebtors
SYMMETRY Symmetry
INVARIANTS
  DecidedOnce
PROPERTIES
  ImplementsNoticeBook
