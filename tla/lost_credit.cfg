SPECIFICATION Spec
CONSTANTS
  i1 = i1
  i2 = i2
  h1 = h1
  h2 = h2
  t1 = t1
  t2 = t2
  Instances = {i1}
  Hooks = {h1}
  Threads = {t1}
  Home <- OneProcess
  Durable = TRUE
  Orders = {o1}
  Face = 2
  Amounts <- Halves
  MaxFaults = 1
  MayCrash = TRUE
  None = None
INVARIANTS
  IgnoredMeansApplied
  AckedIsSettled
