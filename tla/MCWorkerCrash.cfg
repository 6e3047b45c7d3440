SPECIFICATION Spec
CONSTANTS
  p1 = p1
  NULL = NULL
  MergeRequests = {m1}
  Heads = {h1, h2}
  PatchIDs = {p1}
  PatchOf <- RebasedPatch
  NoteIDs <- NoteIDRange
  MaxFindings = 1
  MaxJobAttempts = 3
  PatchWaitReserve = 2
  GracePeriod = FALSE
  DelayedPosts = TRUE
  MaxNotes = 2
  MaxMoves = 1
  WaitOnCI = FALSE
  DatabaseLoss = FALSE
  MaxStops = 1
  MaxRetries = 0
SYMMETRY HeadSymmetry
INVARIANTS AtMostOneNote PublishedIsStored RunningIsOwned
PROPERTIES PatchWaitIsBounded UsesStore
CHECK_DEADLOCK FALSE
