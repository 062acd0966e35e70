SPECIFICATION Spec
CONSTANTS
  a = a
  b = b
  Invoices = {a, b}
  None = None
  MaxWindows = 1
  Horizon = 1
  Cooldown = 2
  MaxEscalations = 2
  EscalationAge = 45
  NegotiationFloor = 15
  VipPercent = 5
  ConcessionBps = 500
  Batches = {r, s}
  Live = FALSE
  Quiet = FALSE
  MaxQueue = 1
  MaxDay = 4
  Accounts <- OnePlain
  Answers <- PlainAnswers
  Payments = {10}
PROPERTIES
  CooldownKept
