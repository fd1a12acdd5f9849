SPECIFICATION Spec
CONSTANTS
  MaxId = 2
  Total = 1
  Clients = {c1, c2}
  Workers = {w1, w2}
  Closers = {k1}
  Capacity = 1
  JobKinds = {"progress", "generic"}
  MaxReports = 1
  None = None
SYMMETRY Interchangeable
INVARIANTS
  TypeOK
  EventProtocol
  EventsTellRecords
  NoStrandedTask
PROPERTIES
  ImplementsLifecycle
