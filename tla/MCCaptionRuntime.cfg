SPECIFICATION FairSpec
CONSTANTS
  MaxSegments = 2
  MaxRequests = 2
  MaxQueued = 1
  Backlogs = {1, 2}
  MaxLines = 2
  ChunkSize = 2
  Kinds = {"local-asr", "system-captions"}
INVARIANTS TypeOK AnswersAreGenuine TailIsKept NothingLeftBehind
PROPERTIES SegmentsInTurn StopSettles
CHECK_DEADLOCK FALSE
