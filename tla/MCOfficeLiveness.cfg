SPECIFICATION FairSpec
CONSTANTS
  Doc = Doc
  New = New
  Operations = {o1, o2}
  Documents = {Doc}
  Targets = {New}
  Requests <- EditRequests
  MaxFailures = 1
  Shutdown = Shutdown
  Nobody = Nobody
PROPERTIES
  CallsReturn
