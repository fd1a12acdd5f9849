SPECIFICATION Spec
CONSTANTS
  Plugins = {p1}
  MaxFailures = 1
  MaxRestarts = 1
  None = None
INVARIANTS
  FailedPluginsAreIsolated
