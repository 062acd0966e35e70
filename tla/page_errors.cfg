SPECIFICATION Spec
CONSTANTS
  plain = plain
  silent = silent
  traders = traders
  regular = regular
  last = last
  first = first
  other = other
  Threads = {t1, t2}
  Callers = {t1, t2}
  Primary = "flash"
  Fallbacks <- Lite
  NoModel = ""
  HasKey = TRUE
  Books <- ThreeBooks
  Order <- LedgerOrder
  Contacts = {regular}
  CaseDebtor <- CaseDebtors
  Requests <- SomeRequests
  DefaultKey <- PublishedKey
  Answers <- TwoAnswers
  CacheMax = 1
  DiskFails = FALSE
  Cooldown = 7
  MaxEscalations = 2
  EscalationAge = 45
  NegotiationFloor = 15
  VipPercent = 5
  ConcessionBps = 500
INVARIANTS
  NoServerError
  ComplexIsComplex
