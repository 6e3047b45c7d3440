SPECIFICATION FairSpecScan
CONSTANTS
  a = a
  b = b
  NULL = NULL
  MergeRequests = {1, 2, 3}
  Heads = {h1, h2}
  PatchIDs = {p1}
  NoteIDs = {n1}
  MaxFindings = 0
  MaxJobAttempts = 1
  GracePeriod = TRUE
  Projects <- BothProjects
  ProjectOf <- AllInOne
  PageSize = 1
  MaxPages = 2
  MaxMoves = 1
INVARIANTS ScanCoversProject
CHECK_DEADLOCK FALSE
PROPERTIES ReadyIsDiscovered
