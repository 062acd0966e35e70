SPECIFICATION Spec
CONSTANTS
  old = old
  recent = recent
  Invoices <- MCInvoices
  Ledgers <- SomeLedgers
  Debtor <- OneDebtor
  Suppliers <- SomeSuppliers
  Days <- SomeDays
  Payments = {20}
  Asks = {1, 60}
  GraceDays = 15
  WrittenWindow = 45
  DefaultWindow = 15
  ObjectionWindow = 15
  RestDays = 30
  RateDen = 10
  Cooldown = 7
  MaxEscalations = 2
  EscalationAge = 45
  NegotiationFloor = 15
  VipPercent = 5
  ConcessionBps = 500
PROPERTIES
  BeyondThePeriod
  ClockStaysStopped
  DemandIsOwed
  PricesRunningClocks
CHECK_DEADLOCK FALSE
