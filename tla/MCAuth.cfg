SPECIFICATION Spec
CONSTANTS
  Callers = {c1, c2}
  Users = {u1, u2}
  MaxTokens = 3
  MaxFailures = 1
  MaxRestarts = 1
  None = None
SYMMETRY Interchangeable
INVARIANTS
  TypeOK
  MemoryAgreesWithStore
  RenewalsAreFresh
  EventsTellTheSession
PROPERTIES
  SessionsBeginWithLogin
