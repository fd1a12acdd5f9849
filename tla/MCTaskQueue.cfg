SPECIFICATION Spec
CONSTANTS
  MaxId = 3
  Total = 2
  Clients = {c1, c2}
  Workers = {w1}
  Closers = {k1, k2}
  Capacity = 2
  JobKinds = {"progress"}
  MaxReports = 0
  None = None
SYMMETRY Interchangeable
INVARIANTS
  FifoOrder
  ShutdownIsFinal
  SuccessReportedEveryStep
