SPECIFICATION FairSpec
CONSTANTS
  p1 = p1
  NULL = NULL
  MergeRequests = {m1}
  Heads = {h1}
  PatchIDs = {p1}
  PatchOf <- RebasedPatch
  NoteIDs <- NoteIDRange
  MaxFindings = 0
  MaxJobAttempts = 1
  PatchWaitReserve = 3
  GracePeriod = FALSE
  DelayedPosts = FALSE
  MaxNotes = 1
  MaxMoves = 2
  WaitOnCI = FALSE
  DatabaseLoss = FALSE
  MaxStops = 0
  MaxRetries = 0
PROPERTIES NoRevisionLost
CHECK_DEADLOCK FALSE
