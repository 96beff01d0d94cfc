SPECIFICATION Spec
CONSTANTS
  Page = {p1}
  Recorders = {p1}
  MaxChunks = 2
  MaxAttempts = 2
  Faults <- MCEveryFault
  MaxFailures = 3
INVARIANTS
  NoOvertaking
PROPERTIES
  DurableEndIsComplete
CHECK_DEADLOCK FALSE
