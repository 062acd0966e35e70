SPECIFICATION Spec
CONSTANTS
  Invoices = {a, b}
  Threads = {t1}
  Horizon = 1
  MaxWindows = 2
  Overnight = FALSE
  MaxDay = 3
  MaxRestarts = 0
  None = None
SYMMETRY Symmetry
PROPERTIES
  AcceptedIsHonoured
