SPECIFICATION FairSpec
CONSTANTS
  Page = {p1}
  Recorders = {p1}
  MaxChunks = 2
  MaxAttempts = 2
  Faults <- MCFaultsOutside
  MaxFailures = 2
PROPERTIES
  UploadsSettle
CHECK_DEADLOCK FALSE
