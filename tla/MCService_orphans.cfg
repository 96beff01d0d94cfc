SPECIFICATION Spec
CONSTANTS
  p1 = p1
  p2 = p2
  Process = {p1, p2}
  NoProcess = none
  Nobody = none
  Session <- MCSession
  Server <- MCServer
  PartsUnder <- MCPartsUnder
  MaxAttempts = 2
  MaxChanges = 1
  MaxCursor = 2
  MaxRevision = 2
  MaxStreams = 2
  MaxQueue = 2
  MaxDrops = 1
  r1 = r1
  r2 = r2
  Refreshes = {r1, r2}
  OldLines = 2
  MaxLines = 2
  MaxRuns = 3
  Workloads = {"memos"}
INVARIANTS FailureIsCleanedUp
CHECK_DEADLOCK FALSE
