SPECIFICATION FairSpec
CONSTANTS
  i1 = i1
  i2 = i2
  h1 = h1
  h2 = h2
  t1 = t1
  t2 = t2
  Instances = {i1}
  Hooks = {h1, h2}
  Threads = {t1}
  Home <- OneProcess
  Durable = FALSE
  Orders = {o1, o2}
  Face = 2
  Amounts <- HalfAndAny
  MaxFaults = 1
  MayCrash = FALSE
  None = None
INVARIANTS
  TypeOK
  AckedIsSettled
PROPERTIES
  ImplementsCaptureBook
  EveryCaptureSettles
