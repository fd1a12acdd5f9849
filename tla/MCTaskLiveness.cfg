SPECIFICATION FairSpec
CONSTANTS
  MaxId = 2
  Total = 2
  Clients = {c1}
  Workers = {w1, w2}
  Closers = {k1}
  Capacity = 2
  JobKinds = {"progress"}
  MaxReports = 0
  None = None
PROPERTIES
  AcceptedTasksFinish
  WorkersStopAfterShutdown
  TerminalIsAnnounced
