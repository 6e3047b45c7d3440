SPECIFICATION FairSpec
CONSTANTS
  MaxRoots = 2
  MaxHandlers = 1
  MaxStarts = 2
INVARIANTS CleanExitMeansNoFailure RootsAreOwned
PROPERTIES ReviewHasWholeRoot ShutdownEnds
CHECK_DEADLOCK FALSE
