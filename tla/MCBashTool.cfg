SPECIFICATION FairSpec
CONSTANTS
  Commands = {c1, c2}
  ShowLimit = 1
  CommandLimit = 2
  SpoolLimit = 3
  PipeCapacity = 1
  Timed = {c1}
  NoFile = NoFile
INVARIANTS SpoolWithinAllowance TruncatedOutputIsInFile LimitIsReported
PROPERTIES CallReturns
CHECK_DEADLOCK FALSE
