SPECIFICATION Spec
CONSTANTS
  Invoices = {a}
  Threads = {t1}
  Horizon = 1
  MaxWindows = 2
  Overnight = FALSE
  MaxDay = 6
  MaxRestarts = 0
  None = None
SYMMETRY Symmetry
INVARIANTS
  SettlementRenewsBudget
