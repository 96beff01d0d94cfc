SPECIFICATION Spec
CONSTANTS
  p1 = p1
  p2 = p2
  Process = {p1, p2}
  NoProcess = none
  Nobody = none
  Session <- MCSession
  Server <- MCServer
  PartsUnder <- MCPartsUnder
  MaxAttempts = 2
  MaxChanges = 1
  MaxCursor = 3
  MaxRevision = 2
  MaxStreams = 2
  MaxQueue = 2
  MaxDrops = 1
  r1 = r1
  r2 = r2
  Refreshes = {r1, r2}
  OldLines = 2
  MaxLines = 2
  MaxRuns = 3
  Workloads = {"capture", "memos", "events", "previews", "tools"}
INVARIANTS TypeOK LockCoversWrites RollbackIsHonest PageIsPrefix  CloseIsNeverStuck RootIsUsable OriginalIsKept VerifiedBackupStarts
PROPERTIES LedgerIsKept
SYMMETRY MCSymmetry
CHECK_DEADLOCK FALSE
