SPECIFICATION Spec
CONSTANTS
  a = a
  b = b
  Invoices = {a, b}
  None = None
  MaxWindows = 1
  Horizon = 0
  Cooldown = 2
  MaxEscalations = 1
  EscalationAge = 45
  NegotiationFloor = 15
  VipPercent = 5
  ConcessionBps = 500
  Batches = {r}
  Live = TRUE
  Quiet = TRUE
  MaxQueue = 1
  MaxDay = 2
  Accounts <- SevenAccounts
  Answers <- ManyAnswers
  Payments = {15}
INVARIANTS
  TypeOK
  UnattendedIsOwn
PROPERTIES
  AskIsOwed
  PromiseHalts
