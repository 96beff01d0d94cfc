SPECIFICATION FairSpec
CONSTANTS
  Session = {s1}
  NoSession = NoSession
  NoEvent = NoEvent
  MaxFailures = 1
PROPERTIES
  StartingResolves
  ConfirmedEndCompletes
