SPECIFICATION Spec
CONSTANTS
  Invoices = {a, b}
  Threads = {t1}
  Horizon = 1
  MaxWindows = 2
  Overnight = TRUE
  MaxDay = 6
  MaxRestarts = 1
  None = None
SYMMETRY Symmetry
INVARIANTS
  HoldIsBounded
PROPERTIES
  OnlyOwnInvoiceCloses
