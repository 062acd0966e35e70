SPECIFICATION Spec
CONSTANTS
  a = a
  b = b
  Invoices = {a, b}
  None = None
  MaxWindows = 1
  Horizon = 1
  Cooldown = 2
  MaxEscalations = 1
  EscalationAge = 45
  NegotiationFloor = 15
  VipPercent = 5
  ConcessionBps = 500
  Batches = {r}
  Live = FALSE
  Quiet = FALSE
  MaxQueue = 1
  MaxDay = 3
  Accounts <- SevenAccounts
  Answers <- PlainAnswers
  Payments = {20}
INVARIANTS
  EscalationCeiling
PROPERTIES
  CooldownKept
  DisputedNotAsked
