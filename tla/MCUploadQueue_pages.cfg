SPECIFICATION Spec
CONSTANTS
  Page = {p1, p2}
  Recorders = {p1}
  MaxChunks = 1
  MaxAttempts = 1
  Faults <- MCNoFault
  MaxFailures = 1
PROPERTIES
  PersistedIsKept
CHECK_DEADLOCK FALSE
