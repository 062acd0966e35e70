SPECIFICATION Spec
CONSTANTS
  i1 = i1
  i2 = i2
  h1 = h1
  h2 = h2
  t1 = t1
  t2 = t2
  Instances = {i1, i2}
  Hooks = {h1}
  Threads = {t1, t2}
  Home <- TwoProcesses
  Durable = TRUE
  Orders = {o1, o2}
  Face = 2
  Amounts <- Halves
  MaxFaults = 0
  MayCrash = TRUE
  None = None
INVARIANTS
  EveryOrderMatched
