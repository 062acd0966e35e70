SPECIFICATION Spec
CONSTANTS
  i1 = i1
  i2 = i2
  h1 = h1
  h2 = h2
  t1 = t1
  t2 = t2
  Instances = {i1, i2}
  Hooks = {h1, h2}
  Threads = {t1}
  Home <- TwoProcesses
  Durable = TRUE
  Orders = {o1}
  Face = 2
  Amounts <- HalfOrAll
  MaxFaults = 0
  MayCrash = TRUE
  None = None
INVARIANTS
  CountedOnce
