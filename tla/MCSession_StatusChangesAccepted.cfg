SPECIFICATION Spec
CONSTANTS
  Session = {s1}
  NoSession = NoSession
  NoEvent = NoEvent
  MaxFailures = 1
INVARIANTS
  StatusChangesAccepted
CHECK_DEADLOCK FALSE
