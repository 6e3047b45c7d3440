SPECIFICATION Spec
CONSTANTS
  MergeRequests = {m1}
  Heads = {h1}
  PatchIDs = {}
  NoteIDs = {n1}
  MaxFindings = 0
  MaxJobAttempts = 1
  GracePeriod = FALSE
  NULL = NULL
  Deliveries = {d1, d2}
  Requests = {r1, r2, r3}
  MaxConcurrentWebhooks = 2
  MaxCrashes = 1
SYMMETRY Symmetry
INVARIANTS AckedIsDurable DuplicatesResolveAlike SlotsAreReturned
