SPECIFICATION FairSpec
CONSTANTS
  p1 = p1
  NULL = NULL
  MergeRequests = {m1, m2}
  Heads = {h1}
  PatchIDs = {p1}
  PatchOf <- RebasedPatch
  NoteIDs <- NoteIDRange
  MaxFindings = 0
  MaxJobAttempts = 2
  PatchWaitReserve = 3
  GracePeriod = TRUE
  DelayedPosts = FALSE
  MaxNotes = 2
  MaxMoves = 0
  WaitOnCI = TRUE
  DatabaseLoss = TRUE
  MaxStops = 2
  MaxRetries = 1
INVARIANTS NoWastedReview SelectionStaysValid
PROPERTIES JobsSettle
CHECK_DEADLOCK FALSE
