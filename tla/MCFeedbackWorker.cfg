SPECIFICATION FairSpec
CONSTANTS
  p1 = p1
  NULL = NULL
  MergeRequests = {m1}
  Heads = {h1}
  PatchIDs = {p1}
  PatchOf <- RebasedPatch
  NoteIDs = {1}
  MaxFindings = 0
  MaxJobAttempts = 2
  GracePeriod = FALSE
  DelayedPosts = FALSE
  MaxNotes = 0
  MaxMoves = 2
  Deliveries = {d1, d2}
  MaxStops = 1
  MaxRetries = 1
INVARIANTS FeedbackRunningIsOwned
PROPERTIES UsesFeedbackStore FeedbackSettles
CHECK_DEADLOCK FALSE
