SPECIFICATION SpecFeedback
CONSTANTS
  MergeRequests = {m1}
  Heads = {h1, h2}
  PatchIDs = {p1}
  NoteIDs = {n1}
  MaxFindings = 1
  MaxJobAttempts = 2
  GracePeriod = TRUE
  NULL = NULL
  Deliveries = {d1, d2}
SYMMETRY Symmetry
INVARIANTS AliasIntegrity CompletedIffAnswered BoundReviewStaysEligible MemoryOnlyWhenCompleted
PROPERTIES SettledForever ClaimsAreCounted ImplementsLifecycle BindingIsFixed
