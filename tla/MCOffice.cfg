SPECIFICATION Spec
CONSTANTS
  Doc = Doc
  New = New
  Operations = {o1, o2}
  Documents = {Doc}
  Targets = {New}
  Requests <- MCRequests
  MaxFailures = 1
  Shutdown = Shutdown
  Nobody = Nobody
SYMMETRY Interchangeable
INVARIANTS
  TypeOK
  NoForgottenResident
PROPERTIES
  RegisteredUntilGone
  ForeignResidentsSurvive
  CommittedOnlyWhenClosed
