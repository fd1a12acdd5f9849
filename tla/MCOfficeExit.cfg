SPECIFICATION Spec
CONSTANTS
  Doc = Doc
  New = New
  Operations = {o1, o2}
  Documents = {Doc}
  Targets = {New}
  Requests <- CommandRequests
  MaxFailures = 0
  Shutdown = Shutdown
  Nobody = Nobody
INVARIANTS
  ExitLeavesNoResident
